---- MODULE Spec2Model ----
(***************************************************************************)
(* A model of the synthetic-data generator: dependency planning            *)
(* (build_dependency_graph, topo_sort), value generation                   *)
(* (generate_batch_fast, ValueGenerator), FK resolution                    *)
(* (resolve_fks_batch) and the INSERT / DELETE emission of                 *)
(* FastSyntheticGenerator.generate.  Beside the pipeline: the operations   *)
(* of ConstraintResolver, the string values of generate_batch_fast, the    *)
(* PK sequence counter and the per-column sequential counters under the    *)
(* worker threads.                                                         *)
(*                                                                         *)
(* Column values are integers.  Enum literals are small integer codes and  *)
(* Python's None is the value None below.  A row is a function from the    *)
(* column names that have a key in the Python dict to values; row.get(c)   *)
(* is Get(row, c).  All tables live in one schema, so "schema.table" is    *)
(* the table name.                                                         *)
(***************************************************************************)
EXTENDS Integers, Sequences, FiniteSets, TLC

VARIABLES
    scn,                      \* the configuration and catalog snapshot of the run
    cfg_rows,                 \* table -> the "rows" entry of its configuration
    pc,                       \* position of the orchestrating thread
    node_idx,                 \* position of "for node in order" in the running phase
    metadata,                 \* tables whose metadata is loaded (introspect)
    fks,                      \* self.fks, the filtered single-column FK list
    logical_composite_fks,    \* self.logical_composite_fks
    forced_explicit_parents,  \* the explicit-PK set
    pk_next_vals,             \* table -> next PK value (tables with a sequence)
    nodes, edges,             \* the dependency graph
    indeg, q, order,          \* topo_sort's locals and result
    generated_rows,           \* table -> sequence of rows
    composite_unique_counters,\* "table.column" -> next sequential value
    gen,                      \* the running generate_batch_fast call
    res,                      \* the running resolve_fks_batch call
    insert_sql_lines,         \* emitted INSERT stream
    delete_sql_lines,         \* emitted DELETE stream
    par,                      \* the thread pool of generate_parallel
    global_unique_value_pools,\* "table.column" -> the pool and its cursor
    resolver,                 \* the last call of a ConstraintResolver operation
    strings,                  \* the string columns of one generate_batch_fast call
    seq,                      \* the sequential counters and the threads that call them
    pkseq,                    \* a PK sequence counter and the threads that take from it
    upool,                    \* one global unique pool and the threads that take from it
    chunking                  \* the split of one table's rows by generate_parallel

vars == << scn, cfg_rows, pc, node_idx, metadata, fks, logical_composite_fks,
           forced_explicit_parents, pk_next_vals, nodes, edges, indeg, q, order,
           generated_rows, composite_unique_counters, gen, res,
           insert_sql_lines, delete_sql_lines, par, global_unique_value_pools,
           resolver, strings, seq, pkseq, upool, chunking >>

\* the state of the components that the pipeline of generate() never touches
aux_vars == << resolver, strings, seq, pkseq, upool, chunking >>

\* the state of the pipeline of generate()
pipeline_vars == << scn, cfg_rows, pc, node_idx, metadata, fks, logical_composite_fks,
                    forced_explicit_parents, pk_next_vals, nodes, edges, indeg, q, order,
                    generated_rows, composite_unique_counters, gen, res,
                    insert_sql_lines, delete_sql_lines, par, global_unique_value_pools >>

---------------------------------------------------------------------------
(* Bounds of the model *)

\* largest "rows" entry of a table's configuration
MaxRows == 2
\* default integer columns draw from 0..MaxRandInt (the code draws from 0..10000)
MaxRandInt == 1

---------------------------------------------------------------------------
(* Values and rows *)

None == -1

Get(row, c) == IF c \in DOMAIN row THEN row[c] ELSE None

Put(row, c, v) == [k \in (DOMAIN row) \cup {c} |-> IF k = c THEN v ELSE row[k]]

\* temp_row[child_col] = parent_row.get(parent_col) for the zipped columns
RECURSIVE CopyCols(_, _, _, _)
CopyCols(row, child_cols, parent_cols, parent_row) ==
    IF child_cols = << >> THEN row
    ELSE CopyCols(Put(row, Head(child_cols), Get(parent_row, Head(parent_cols))),
                  Tail(child_cols), Tail(parent_cols), parent_row)

Range(s) == {s[i] : i \in DOMAIN s}

TupleOf(row, cols) == [i \in DOMAIN cols |-> Get(row, cols[i])]

HasNone(t) == \E i \in DOMAIN t : t[i] = None

\* the orders a shuffle, or the iteration of a Python set, can produce
Perms(S) == {s \in [1..Cardinality(S) -> S] : \A i, j \in DOMAIN s : s[i] = s[j] => i = j}

\* shuffle(list(S))[:k]
ShuffledPrefixes(S, k) ==
    LET n == IF k < Cardinality(S) THEN k ELSE Cardinality(S)
    IN  {s \in [1..n -> S] : \A i, j \in DOMAIN s : s[i] = s[j] => i = j}

\* a sequence walked front to back
Forward(s) == s

\* reversed(order)
Reversed(s) == [i \in DOMAIN s |-> s[Len(s) + 1 - i]]

---------------------------------------------------------------------------
(* Schema model: ColumnMeta, TableMeta, UniqueConstraint, FKMeta and the    *)
(* composite logical FK dicts                                               *)

NoCondition == [column |-> "", value |-> None]

Cond(c, v) == [column |-> c, value |-> v]

IntCol(n, nullable) ==
    [name |-> n, data_type |-> "int", is_nullable |-> nullable,
     enum_values |-> {}, populate |-> FALSE, values |-> {}]

\* a column listed in populate_columns with a "values" list
WithValues(col, vals) == [col EXCEPT !.populate = TRUE, !.values = vals]

EnumCol(n, nullable, vals) ==
    [name |-> n, data_type |-> "enum", is_nullable |-> nullable,
     enum_values |-> vals, populate |-> FALSE, values |-> {}]

\* auto_inc and current_max are the catalog's AUTO_INCREMENT and MAX(pk)
Table(cols, pk, auto_inc, current_max) ==
    [columns |-> cols, pk_columns |-> pk, auto_increment |-> auto_inc # None,
     auto_inc_next |-> auto_inc, current_max |-> current_max]

UC(n, cols) == [constraint_name |-> n, columns |-> cols]

FK(n, child, col, parent, pcol, cond) ==
    [constraint_name |-> n, table_name |-> child, column_name |-> col,
     referenced_table_name |-> parent, referenced_column_name |-> pcol,
     condition |-> cond]

Comp(n, child, ccols, parent, pcols) ==
    [constraint_name |-> n, table_name |-> child, child_columns |-> ccols,
     referenced_table_name |-> parent, referenced_columns |-> pcols]

\* enum literals are encoded as integer codes
EnumCode(literal) ==
    CASE literal = "W" -> 1
      [] literal = "H" -> 2
      [] literal = "M" -> 3

\* the literals of the discriminator column "kind"
KindW == EnumCode("W")
KindH == EnumCode("H")
KindM == EnumCode("M")

---------------------------------------------------------------------------
(* The configurations and catalog snapshots the model runs on *)

\* auto-assigned parent P, child C with a NOT NULL FK to P.id  (spec scenario 1)
ScnAutoParent ==
    [name |-> "auto_parent", tables |-> << "P", "C" >>,
     meta |-> [t \in {"P", "C"} |->
        IF t = "P" THEN Table(<< IntCol("id", "NO"), IntCol("v", "NO") >>, << "id" >>, 1, 0)
        ELSE Table(<< IntCol("id", "NO"), IntCol("p_id", "NO") >>, << "id" >>, 1, 0)],
     unique_constraints |-> [t \in {"P", "C"} |-> << >>],
     declared_fks |-> << FK("FK_C_P", "C", "p_id", "P", "id", NoCondition) >>,
     logical_fks |-> << >>, composite_fks |-> << >>,
     explicit_pk |-> {}, ignore_self_referential_fks |-> {}]

\* the same with explicit_pk on P and a UNIQUE index on the FK column
ScnUniqueFk ==
    [ScnAutoParent EXCEPT
        !.name = "unique_fk",
        !.unique_constraints = [t \in {"P", "C"} |->
            IF t = "C" THEN << UC("UQ_C_P", << "p_id" >>) >> ELSE << >>],
        !.explicit_pk = {"P"}]

XTable(ref_nullable) ==
    Table(<< IntCol("id", "NO"), EnumCol("kind", "NO", {KindW, KindH, KindM}),
             IntCol("ref_id", ref_nullable) >>, << "id" >>, 1, 0)

\* conditional FKs on X.ref_id selected by X.kind, and an unconditional FK
\* on the same column  (spec scenario 4)
ScnConditional ==
    [name |-> "conditional", tables |-> << "W", "H", "X" >>,
     meta |-> [t \in {"W", "H", "X"} |->
        IF t = "W" THEN Table(<< IntCol("id", "NO") >>, << "id" >>, 1, 0)
        ELSE IF t = "H" THEN Table(<< IntCol("id", "NO") >>, << "id" >>, 1, 4)
        ELSE XTable("NO")],
     unique_constraints |-> [t \in {"W", "H", "X"} |-> << >>],
     declared_fks |-> << FK("FK_X_H", "X", "ref_id", "H", "id", NoCondition) >>,
     logical_fks |-> << FK("LOGICAL_X_W", "X", "ref_id", "W", "id", Cond("kind", KindW)),
                        FK("LOGICAL_X_H", "X", "ref_id", "H", "id", Cond("kind", KindH)) >>,
     composite_fks |-> << >>,
     explicit_pk |-> {}, ignore_self_referential_fks |-> {}]

\* two conditional FKs with the same predicate; the first one's parent W is
\* auto-assigned (its ids are null during generation), H has explicit_pk
ScnConditionalEmptyParent ==
    [ScnConditional EXCEPT
        !.name = "conditional_empty_parent",
        !.meta = [t \in {"W", "H", "X"} |->
            IF t = "X" THEN XTable("YES") ELSE ScnConditional.meta[t]],
        !.declared_fks = << >>,
        !.logical_fks = << FK("LOGICAL_X_W", "X", "ref_id", "W", "id", Cond("kind", KindW)),
                           FK("LOGICAL_X_H", "X", "ref_id", "H", "id", Cond("kind", KindW)) >>,
        !.explicit_pk = {"H"}]

\* the conditional FK column is part of X's two-column primary key
ScnConditionalPk ==
    [ScnConditional EXCEPT
        !.name = "conditional_pk",
        !.meta = [t \in {"W", "H", "X"} |->
            IF t = "X"
            THEN Table(<< EnumCol("kind", "NO", {KindW, KindH}), IntCol("ref_id", "NO"),
                          IntCol("n", "NO") >>, << "ref_id", "n" >>, None, 0)
            ELSE ScnConditional.meta[t]],
        !.declared_fks = << >>]

PTable(x_nullable) ==
    Table(<< IntCol("id", "NO"), IntCol("x", x_nullable), IntCol("y", "NO") >>,
          << "id" >>, 1, 0)

\* composite logical FK (a, b) -> P(x, y), no overlap with the primary key
ScnComposite ==
    [name |-> "composite", tables |-> << "P", "T" >>,
     meta |-> [t \in {"P", "T"} |->
        IF t = "P" THEN PTable("NO")
        ELSE Table(<< IntCol("id", "NO"), IntCol("a", "YES"), IntCol("b", "YES") >>,
                   << "id" >>, 1, 0)],
     unique_constraints |-> [t \in {"P", "T"} |-> << >>],
     declared_fks |-> << >>, logical_fks |-> << >>,
     composite_fks |-> << Comp("LOGICAL_T_a_b", "T", << "a", "b" >>, "P", << "x", "y" >>) >>,
     explicit_pk |-> {}, ignore_self_referential_fks |-> {}]

\* the composite FK (a, b) shares column a with T's primary key (a, c)
ScnCompositePk ==
    [ScnComposite EXCEPT
        !.name = "composite_pk",
        !.meta = [t \in {"P", "T"} |->
            IF t = "P" THEN PTable("NO")
            ELSE Table(<< IntCol("a", "NO"), IntCol("b", "NO"), IntCol("c", "NO") >>,
                       << "a", "c" >>, None, 0)]]

\* T's primary key is the composite FK (a, b); P.x is nullable and not
\* populated, so no parent tuple is available for pre-allocation
ScnCompositeNullParent ==
    [ScnComposite EXCEPT
        !.name = "composite_null_parent",
        !.meta = [t \in {"P", "T"} |->
            IF t = "P" THEN PTable("YES")
            ELSE Table(<< IntCol("a", "YES"), IntCol("b", "NO") >>,
                       << "a", "b" >>, None, 0)]]

\* junction table J with primary key (a_id, b_id), both FKs  (spec scenario 5)
ScnJunction ==
    [name |-> "junction", tables |-> << "A", "B", "J" >>,
     meta |-> [t \in {"A", "B", "J"} |->
        IF t = "J" THEN Table(<< IntCol("a_id", "NO"), IntCol("b_id", "NO") >>,
                              << "a_id", "b_id" >>, None, 0)
        ELSE Table(<< IntCol("id", "NO") >>, << "id" >>, 1, 0)],
     unique_constraints |-> [t \in {"A", "B", "J"} |-> << >>],
     declared_fks |-> << FK("FK_J_A", "J", "a_id", "A", "id", NoCondition),
                         FK("FK_J_B", "J", "b_id", "B", "id", NoCondition) >>,
     logical_fks |-> << >>, composite_fks |-> << >>,
     explicit_pk |-> {}, ignore_self_referential_fks |-> {}]

\* S.id is S's primary key and a FK to P.id
ScnPkIsFk ==
    [name |-> "pk_is_fk", tables |-> << "P", "S" >>,
     meta |-> [t \in {"P", "S"} |->
        IF t = "P" THEN Table(<< IntCol("id", "NO"), IntCol("v", "NO") >>, << "id" >>, 1, 0)
        ELSE Table(<< IntCol("id", "NO") >>, << "id" >>, None, 0)],
     unique_constraints |-> [t \in {"P", "S"} |-> << >>],
     declared_fks |-> << FK("FK_S_P", "S", "id", "P", "id", NoCondition) >>,
     logical_fks |-> << >>, composite_fks |-> << >>,
     explicit_pk |-> {"P"}, ignore_self_referential_fks |-> {}]

Scenarios ==
    { ScnAutoParent, ScnUniqueFk, ScnConditional, ScnConditionalEmptyParent,
      ScnConditionalPk, ScnComposite, ScnCompositePk, ScnCompositeNullParent,
      ScnJunction, ScnPkIsFk }

\* args.rows: the row count of a table whose configuration has no "rows"
default_rows_per_table == 1

---------------------------------------------------------------------------
(* Introspection and dependency planning *)

ConfigTables(s) == Range(s.tables)

\* no FK is taken for an ignored self-reference
IgnoresNothing(s, child, parent) == FALSE

\* ignore_self_referential_fks of the child's configuration entry, for a FK
\* of the table to itself
IgnoresSelfRef(s, child, parent) ==
    child \in s.ignore_self_referential_fks /\ child = parent

\* load_logical_fks_from_config: the single-column and the composite logical FKs
LoadLogicalSingle(s) ==
    SelectSeq(s.logical_fks,
              LAMBDA fk : ~IgnoresSelfRef(s, fk.table_name, fk.referenced_table_name))

LoadLogicalComposite(s) ==
    SelectSeq(s.composite_fks,
              LAMBDA comp : ~IgnoresSelfRef(s, comp.table_name, comp.referenced_table_name))

\* introspect: self.fks
FilteredFks(s) ==
    SelectSeq(s.declared_fks \o LoadLogicalSingle(s),
              LAMBDA fk : /\ fk.table_name \in ConfigTables(s)
                          /\ ~IgnoresSelfRef(s, fk.table_name, fk.referenced_table_name))

ColumnMeta(tmeta, cname) ==
    CHOOSE c \in Range(tmeta.columns) : c.name = cname

HasColumn(tmeta, cname) == \E c \in Range(tmeta.columns) : c.name = cname

\* introspect: self.fk_columns[node]
FkColumnsOf(fk_list, comps, node) ==
    {fk.column_name : fk \in {f \in Range(fk_list) : f.table_name = node}}
    \cup UNION {Range(comp.child_columns) :
                    comp \in {c \in Range(comps) : c.table_name = node}}

\* introspect: cfg.get("rows") or self.default_rows_per_table.  A "rows" entry
\* of 0 and a missing entry give the same result
NumRows(rows_cfg) == IF rows_cfg # 0 THEN rows_cfg ELSE default_rows_per_table

\* the placeholder rows of introspect, [None] * num_rows
NoRow == << >>

\* the explicit_pk entries of the configuration alone
ExplicitPkConfigOnly(s, fk_list, comps) == s.explicit_pk

\* detect_forced_explicit_parents: the three rules, in the order of the code
DetectForcedExplicitParents(s, fk_list, comps) ==
    LET notNullParents(child) ==
            {fk.referenced_table_name :
                fk \in {f \in Range(fk_list) :
                          /\ f.table_name = child
                          /\ HasColumn(s.meta[child], f.column_name)
                          /\ ColumnMeta(s.meta[child], f.column_name).is_nullable = "NO"}}
        uniqueParents(child) == notNullParents(child) \cap ConfigTables(s)
        byMultipleFks ==
            UNION {IF Cardinality(uniqueParents(child)) > 1 THEN uniqueParents(child) ELSE {} :
                      child \in ConfigTables(s)}
        byComposite ==
            {comp.referenced_table_name :
                comp \in {c \in Range(comps) :
                            /\ c.referenced_table_name \in ConfigTables(s)
                            /\ Range(c.referenced_columns)
                                 \cap Range(s.meta[c.referenced_table_name].pk_columns) # {}}}
    IN  byMultipleFks \cup byComposite \cup s.explicit_pk

Max(a, b) == IF a > b THEN a ELSE b

PreparePkSequences(s, forced) ==
    LET hasSeq(t) == /\ Len(s.meta[t].pk_columns) = 1
                     /\ (~s.meta[t].auto_increment \/ t \in forced)
        start(t)  == Max(Max(1, IF s.meta[t].auto_inc_next # None /\ s.meta[t].auto_inc_next # 0
                                THEN s.meta[t].auto_inc_next ELSE 1),
                         s.meta[t].current_max + 1)
    IN  [t \in {u \in ConfigTables(s) : hasSeq(u)} |-> start(t)]

\* build_dependency_graph: edges[parent] is the set of children
BuildDependencyGraphEdges(node_set, fk_list, comps) ==
    [parent \in node_set |->
        {fk.table_name : fk \in {f \in Range(fk_list) :
                                    /\ f.referenced_table_name = parent
                                    /\ f.table_name \in node_set}}
        \cup {comp.table_name : comp \in {c \in Range(comps) :
                                    /\ c.referenced_table_name = parent
                                    /\ c.table_name \in node_set}}]

\* the in-degrees when the loop over the edges is left out
InDegreesWithoutEdges(node_set, edge_map) == [n \in node_set |-> 0]

\* topo_sort: the in-degrees
InDegrees(node_set, edge_map) ==
    [n \in node_set |-> Cardinality({u \in DOMAIN edge_map : n \in edge_map[u]})]

NoGen == [node |-> "", idx |-> 0, end |-> 0, rows |-> << >>, local_trackers |-> << >>]

NoRes ==
    [node |-> "", rows |-> << >>, idx |-> 0, pre_allocated_pk |-> << >>,
     pre_allocated_pk_tuples |-> << >>, pre_allocated_pk_cols |-> << >>,
     used_composite_pk_combos |-> {}, resolved_rows |-> << >>, log |-> << >>]

NoPar == [node |-> "", pending |-> << >>, running |-> << >>, all_rows |-> << >>, steps |-> 0]

\* no ConstraintResolver operation has been called
NoResolver == [op |-> "none"]

\* no row with string columns is being generated
NoStrings == [op |-> "none"]

\* no thread calls a sequential counter
NoSeq == [op |-> "none"]

\* no thread takes a value of a PK sequence
NoPkSeq == [op |-> "none"]

\* no global unique pool is in use
NoPool == [op |-> "none"]

\* generate_parallel has split no table
NoChunking == [op |-> "none"]

\* the generator after construction, for a set of configurations and a set of
\* values of their "rows" entries (0: an entry 0 or no entry)
InitPipeline(scenarios, row_counts) ==
    /\ scn \in scenarios
    /\ cfg_rows \in [ConfigTables(scn) -> row_counts]
    /\ pc = "start"
    /\ node_idx = 0
    /\ metadata = {}
    /\ fks = << >>
    /\ logical_composite_fks = << >>
    /\ forced_explicit_parents = {}
    /\ pk_next_vals = << >>
    /\ nodes = {}
    /\ edges = << >>
    /\ indeg = << >>
    /\ q = << >>
    /\ order = << >>
    /\ generated_rows = << >>
    /\ composite_unique_counters = << >>
    /\ gen = NoGen
    /\ res = NoRes
    /\ insert_sql_lines = << >>
    /\ delete_sql_lines = << >>
    /\ par = NoPar
    /\ global_unique_value_pools = << >>

\* the state after construction of the generator; the other components idle
InitWith(scenarios, row_counts) ==
    /\ InitPipeline(scenarios, row_counts)
    /\ upool = NoPool
    /\ chunking = NoChunking
    /\ resolver = NoResolver
    /\ strings = NoStrings
    /\ seq = NoSeq
    /\ pkseq = NoPkSeq

Init == InitWith(Scenarios, 0..MaxRows)

\* generate(): introspect, detect_forced_explicit_parents, prepare_pk_sequences,
\* build_dependency_graph and the first lines of topo_sort
Introspect ==
    /\ pc = "start"
    /\ LET fk_list == FilteredFks(scn)
           comps   == LoadLogicalComposite(scn)
           forced  == DetectForcedExplicitParents(scn, fk_list, comps)
           edge_map == BuildDependencyGraphEdges(ConfigTables(scn), fk_list, comps)
           deg     == InDegrees(ConfigTables(scn), edge_map)
       IN  /\ fks' = fk_list
           /\ logical_composite_fks' = comps
           /\ metadata' = ConfigTables(scn)
           /\ generated_rows' = [t \in ConfigTables(scn) |->
                                    [i \in 1..NumRows(cfg_rows[t]) |-> NoRow]]
           /\ forced_explicit_parents' = forced
           /\ pk_next_vals' = PreparePkSequences(scn, forced)
           /\ nodes' = ConfigTables(scn)
           /\ edges' = edge_map
           /\ indeg' = deg
           /\ q' \in Perms({n \in ConfigTables(scn) : deg[n] = 0})
           /\ order' = << >>
    /\ pc' = "topo"
    /\ UNCHANGED << aux_vars, scn, cfg_rows, node_idx, composite_unique_counters, gen, res,
                    insert_sql_lines, delete_sql_lines, par,
                    global_unique_value_pools >>

\* topo_sort: one iteration of "while q"
TopoPop ==
    /\ pc = "topo"
    /\ q # << >>
    /\ LET u == Head(q)
           deg == [v \in DOMAIN indeg |-> IF v \in edges[u] THEN indeg[v] - 1 ELSE indeg[v]]
           ready == {v \in edges[u] : deg[v] = 0}
       IN  /\ order' = Append(order, u)
           /\ indeg' = deg
           /\ \E appended \in Perms(ready) : q' = Tail(q) \o appended
    /\ UNCHANGED << aux_vars, scn, cfg_rows, pc, node_idx, metadata, fks, logical_composite_fks,
                    forced_explicit_parents, pk_next_vals, nodes, edges,
                    generated_rows, composite_unique_counters, gen, res,
                    insert_sql_lines, delete_sql_lines, par,
                    global_unique_value_pools >>

\* topo_sort: the nodes left over by a cycle are appended; the order is returned
TopoFinish ==
    /\ pc = "topo"
    /\ q = << >>
    /\ IF Len(order) # Cardinality(nodes)
       THEN \E rest \in Perms(nodes \ Range(order)) : order' = order \o rest
       ELSE order' = order
    /\ pc' = "generate"
    /\ node_idx' = 1
    /\ UNCHANGED << aux_vars, scn, cfg_rows, metadata, fks, logical_composite_fks,
                    forced_explicit_parents, pk_next_vals, nodes, edges, indeg, q,
                    generated_rows, composite_unique_counters, gen, res,
                    insert_sql_lines, delete_sql_lines, par,
                    global_unique_value_pools >>

---------------------------------------------------------------------------
(* Value generation: generate_parallel and generate_batch_fast *)

\* generate_parallel: a table is generated in one batch below this row count
ParallelMinRows == 1000

IsIntType(col) == col.data_type = "int"

SingleUniqueCols(s, node) ==
    {uc.columns[1] : uc \in {u \in Range(s.unique_constraints[node]) : Len(u.columns) = 1}}

CompositeUniqueConstraints(s, node) ==
    SelectSeq(s.unique_constraints[node], LAMBDA uc : Len(uc.columns) # 1)

AllUniqueCols(s, node) ==
    UNION {Range(uc.columns) : uc \in Range(s.unique_constraints[node])}

\* populate_config has "values" or "min" for the column
IsControlled(col) == col.populate /\ col.values # {}

\* generate_batch_fast: the uncontrolled columns of composite UNIQUE constraints
\* that have a controlled column too
ColsNeedingSequential(s, fk_cols, node) ==
    LET tmeta == s.meta[node]
        controlled(cname) ==
            \/ IsControlled(ColumnMeta(tmeta, cname))
            \/ cname \in fk_cols
            \/ cname \in Range(tmeta.pk_columns)
    IN  UNION {IF /\ \E c \in Range(uc.columns) : controlled(c)
                  /\ \E c \in Range(uc.columns) : ~controlled(c)
               THEN {c \in Range(uc.columns) : ~controlled(c)}
               ELSE {} :
               uc \in Range(CompositeUniqueConstraints(s, node))}

CounterOf(counters, key) == IF key \in DOMAIN counters THEN counters[key] ELSE 0

\* generate_batch_fast: the PK column of an auto-assigned key stays null unless
\* the table is in the explicit-PK set
SkipsAutoPk(tmeta, cname, node, forced) ==
    cname \in Range(tmeta.pk_columns) /\ tmeta.auto_increment /\ node \notin forced

\* the columns that get no key in the row dict: nullable, not in a UNIQUE index
\* and not in populate_columns
LeftUnset(s, node, col, fk_cols, forced) ==
    /\ ~SkipsAutoPk(s.meta[node], col.name, node, forced)
    /\ col.name \notin fk_cols
    /\ col.name \notin ColsNeedingSequential(s, fk_cols, node)
    /\ col.is_nullable = "YES"
    /\ col.name \notin AllUniqueCols(s, node)
    /\ ~col.populate

\* initialize_global_unique_pools: the single-column UNIQUE columns that get
\* a pool: configured with "values" or "min", and not PK columns
PooledColumns(s, node) ==
    {c \in SingleUniqueCols(s, node) :
        /\ HasColumn(s.meta[node], c)
        /\ IsControlled(ColumnMeta(s.meta[node], c))
        /\ c \notin Range(s.meta[node].pk_columns)}

\* generate_unique_value_pool(col_meta, col_config, needed, rng): distinct
\* values of the configured domain, at most `needed` of them and all of them
\* when the domain is smaller
generate_unique_value_pool(col, needed) == ShuffledPrefixes(col.values, needed)

\* initialize_global_unique_pools(node, num_rows): the pools it can store,
\* each with its cursor at 0
InitializeGlobalUniquePools(s, node, num_rows, pools) ==
    LET todo == {c \in PooledColumns(s, node) : << node, c >> \notin DOMAIN pools}
        keys == {<< node, c >> : c \in todo}
        fresh == {f \in [keys -> UNION {generate_unique_value_pool(
                                            ColumnMeta(s.meta[node], c), num_rows) :
                                        c \in todo}] :
                    \A c \in todo : f[<< node, c >>] \in
                        generate_unique_value_pool(ColumnMeta(s.meta[node], c), num_rows)}
    IN  {[k \in (DOMAIN pools) \cup keys |->
            IF k \in keys THEN [pool |-> f[k], cursor |-> 0] ELSE pools[k]] : f \in fresh}

\* unique_cols_with_global_pools of generate_batch_fast
UniqueColsWithGlobalPools(s, node, pools) ==
    {c \in PooledColumns(s, node) : << node, c >> \in DOMAIN pools}

\* the pools after one row took the value at the cursor of each of them; an
\* exhausted pool keeps its cursor
PoolsAfterRow(s, node, pools) ==
    [k \in DOMAIN pools |->
        IF k[1] = node /\ k[2] \in UniqueColsWithGlobalPools(s, node, pools)
           /\ pools[k].cursor < Len(pools[k].pool)
        THEN [pools[k] EXCEPT !.cursor = @ + 1]
        ELSE pools[k]]

\* the values one column of the row at batch_idx can take
ColumnChoices(s, node, col, batch_idx, fk_cols, forced, counters, pools) ==
    IF SkipsAutoPk(s.meta[node], col.name, node, forced) THEN {None}
    ELSE IF col.name \in fk_cols THEN {None}
    ELSE IF col.name \in ColsNeedingSequential(s, fk_cols, node)
         THEN {CounterOf(counters, << node, col.name >>)}
    ELSE IF col.name \in UniqueColsWithGlobalPools(s, node, pools)
         THEN LET pool_data == pools[<< node, col.name >>]
              IN  IF pool_data.cursor < Len(pool_data.pool)
                  THEN {pool_data.pool[pool_data.cursor + 1]}
                  ELSE {None}
    ELSE IF IsControlled(col) THEN col.values
    ELSE IF IsIntType(col)
         THEN IF col.name \in SingleUniqueCols(s, node) THEN {batch_idx}
              ELSE 0..MaxRandInt
    ELSE IF col.data_type = "enum"
         THEN IF col.enum_values = {} THEN {None} ELSE col.enum_values
    ELSE {None}

\* row[pk] = self.pk_next_vals[table_key] for a table with a PK sequence
UsesPkSequence(tmeta, node, next_vals) ==
    node \in DOMAIN next_vals /\ Len(tmeta.pk_columns) = 1

\* with self.pk_counter_lock: self.pk_next_vals[table_key] += 1
PkCounterAfterRow(tmeta, node, next_vals) ==
    IF UsesPkSequence(tmeta, node, next_vals)
    THEN [next_vals EXCEPT ![node] = @ + 1]
    ELSE next_vals

\* the rows generate_batch_fast can build at batch_idx, before validation
RowChoices(s, node, batch_idx, fk_cols, forced, counters, next_vals, pools) ==
    LET tmeta == s.meta[node]
        keyed == {c \in Range(tmeta.columns) : ~LeftUnset(s, node, c, fk_cols, forced)}
        names == {c.name : c \in keyed}
        all   == UNION {ColumnChoices(s, node, c, batch_idx, fk_cols, forced, counters,
                                      pools) : c \in keyed}
        drawn == {r \in [names -> all] :
                    \A c \in keyed :
                        r[c.name] \in ColumnChoices(s, node, c, batch_idx, fk_cols,
                                                    forced, counters, pools)}
    IN  IF UsesPkSequence(tmeta, node, next_vals)
        THEN {Put(r, tmeta.pk_columns[1], next_vals[node]) : r \in drawn}
        ELSE drawn

\* the counters after one row took its sequential values
CountersAfterRow(s, node, fk_cols, counters) ==
    LET keys == {<< node, c >> : c \in ColsNeedingSequential(s, fk_cols, node)}
    IN  [k \in (DOMAIN counters) \cup keys |->
            IF k \in keys THEN CounterOf(counters, k) + 1 ELSE counters[k]]

\* the duplicate check of generate_batch_fast over the constraints ucs:
\* [valid, trackers] after the loop
RECURSIVE ValidateUnique(_, _, _)
ValidateUnique(row, ucs, trackers) ==
    IF ucs = << >> THEN [valid |-> TRUE, trackers |-> trackers]
    ELSE LET uc == Head(ucs)
             combo_tuple == TupleOf(row, uc.columns)
         IN  IF HasNone(combo_tuple) THEN ValidateUnique(row, Tail(ucs), trackers)
             ELSE IF combo_tuple \in trackers[uc.constraint_name]
                  THEN [valid |-> FALSE, trackers |-> trackers]
                  ELSE ValidateUnique(row, Tail(ucs),
                          [trackers EXCEPT ![uc.constraint_name] = @ \cup {combo_tuple}])

EmptyTrackers(ucs) == [n \in {uc.constraint_name : uc \in Range(ucs)} |-> {}]

\* self.args.threads
max_workers == 2

\* generate_parallel: the table at node_idx is generated by one call
\* generate_batch_fast(node, 0, num_rows, ...)
GenBegin ==
    /\ pc = "generate"
    /\ gen = NoGen
    /\ node_idx <= Len(order)
    /\ LET node == order[node_idx]
       IN  /\ node \in metadata
           /\ (NumRows(cfg_rows[node]) < ParallelMinRows \/ max_workers = 1)
           /\ gen' = [node |-> node, idx |-> 0, end |-> NumRows(cfg_rows[node]),
                      rows |-> << >>,
                      local_trackers |-> EmptyTrackers(scn.unique_constraints[node])]
           /\ global_unique_value_pools' \in
                 InitializeGlobalUniquePools(scn, node, NumRows(cfg_rows[node]),
                                             global_unique_value_pools)
    /\ UNCHANGED << aux_vars, scn, cfg_rows, pc, node_idx, metadata, fks, logical_composite_fks,
                    forced_explicit_parents, pk_next_vals, nodes, edges, indeg, q, order,
                    generated_rows, composite_unique_counters, res,
                    insert_sql_lines, delete_sql_lines, par >>

\* generate_batch_fast: one iteration of "for batch_idx in range(start_idx, end_idx)"
GenRow ==
    /\ pc = "generate"
    /\ gen # NoGen
    /\ gen.idx < gen.end
    /\ LET node == gen.node
           fk_cols == FkColumnsOf(fks, logical_composite_fks, node)
       IN  \E row \in RowChoices(scn, node, gen.idx, fk_cols, forced_explicit_parents,
                                 composite_unique_counters, pk_next_vals,
                                 global_unique_value_pools) :
              LET checked == ValidateUnique(row, scn.unique_constraints[node],
                                            gen.local_trackers)
              IN  /\ gen' = [gen EXCEPT
                               !.idx = @ + 1,
                               !.rows = IF checked.valid THEN Append(@, row) ELSE @,
                               !.local_trackers = checked.trackers]
                  /\ composite_unique_counters' =
                        CountersAfterRow(scn, node, fk_cols, composite_unique_counters)
                  /\ pk_next_vals' = PkCounterAfterRow(scn.meta[node], node, pk_next_vals)
                  /\ global_unique_value_pools' =
                        PoolsAfterRow(scn, node, global_unique_value_pools)
    /\ UNCHANGED << aux_vars, scn, cfg_rows, pc, node_idx, metadata, fks, logical_composite_fks,
                    forced_explicit_parents, nodes, edges, indeg, q, order,
                    generated_rows, res, insert_sql_lines, delete_sql_lines, par >>

\* generate_parallel: the batch's rows become the table's rows; after the last
\* table generate() turns to FK resolution
GenEnd ==
    /\ pc = "generate"
    /\ gen # NoGen
    /\ gen.idx = gen.end
    /\ generated_rows' = [generated_rows EXCEPT ![gen.node] = gen.rows]
    /\ gen' = NoGen
    /\ IF node_idx = Len(order)
       THEN pc' = "resolve" /\ node_idx' = 1
       ELSE pc' = pc /\ node_idx' = node_idx + 1
    /\ UNCHANGED << aux_vars, scn, cfg_rows, metadata, fks, logical_composite_fks,
                    forced_explicit_parents, pk_next_vals, nodes, edges, indeg, q, order,
                    composite_unique_counters, res,
                    insert_sql_lines, delete_sql_lines, par,
                    global_unique_value_pools >>

---------------------------------------------------------------------------
(* FK resolution: resolve_fks_batch, the caches *)

IsTruthyRow(row) == DOMAIN row # {}

HasCondition(fk) == fk.condition # NoCondition

\* self.fks restricted to the child table
NodeFks(fk_list, node) == SelectSeq(fk_list, LAMBDA fk : fk.table_name = node)

CompositeCfgs(comps, node) == SelectSeq(comps, LAMBDA comp : comp.table_name = node)

CompositeColumnsAll(comps, node) ==
    UNION {Range(comp.child_columns) : comp \in Range(CompositeCfgs(comps, node))}

\* parent_vals: the non-null values of the referenced column in the parent's
\* rows.  The code keeps a list; only membership, emptiness and the set of its
\* elements are used.
ParentVals(rows_of, fk) ==
    {Get(r, fk.referenced_column_name) :
        r \in {pr \in Range(rows_of[fk.referenced_table_name]) : IsTruthyRow(pr)}} \ {None}

CacheGet(cache, key) == IF key \in DOMAIN cache THEN cache[key] ELSE {}

\* conditional_fk_caches: constraint name -> parent values
ConditionalFkCaches(rows_of, fk_list, node) ==
    LET cached == {fk \in Range(NodeFks(fk_list, node)) :
                      HasCondition(fk) /\ fk.referenced_table_name \in DOMAIN rows_of}
    IN  [n \in {fk.constraint_name : fk \in cached} |->
            LET last == CHOOSE i \in DOMAIN fk_list :
                           /\ fk_list[i] \in cached /\ fk_list[i].constraint_name = n
                           /\ \A j \in DOMAIN fk_list :
                                (fk_list[j] \in cached /\ fk_list[j].constraint_name = n)
                                    => j <= i
            IN  ParentVals(rows_of, fk_list[last])]

\* conditional_fks_by_column[col], in the order of self.fks
ConditionalFksOf(fk_list, node, col) ==
    SelectSeq(NodeFks(fk_list, node), LAMBDA fk : HasCondition(fk) /\ fk.column_name = col)

\* the keys of conditional_fks_by_column in insertion order
RECURSIVE DistinctInOrder(_)
DistinctInOrder(s) ==
    IF s = << >> THEN << >>
    ELSE LET init == DistinctInOrder(SubSeq(s, 1, Len(s) - 1))
         IN  IF s[Len(s)] \in Range(init) THEN init ELSE Append(init, s[Len(s)])

ConditionalColumns(fk_list, node) ==
    LET cond == SelectSeq(NodeFks(fk_list, node), LAMBDA fk : HasCondition(fk))
    IN  DistinctInOrder([i \in DOMAIN cond |-> cond[i].column_name])

\* parent_caches: child column -> parent values; the last unconditional FK of a
\* column wins, and a column with conditional FKs only gets the union of their
\* parents' values when that union is not empty
ParentCaches(rows_of, fk_list, node) ==
    LET mine == NodeFks(fk_list, node)
        uncond == {i \in DOMAIN mine :
                      /\ ~HasCondition(mine[i])
                      /\ mine[i].referenced_table_name \in DOMAIN rows_of}
        uncondCols == {mine[i].column_name : i \in uncond}
        lastOf(col) == CHOOSE i \in uncond :
                          /\ mine[i].column_name = col
                          /\ \A j \in uncond : mine[j].column_name = col => j <= i
        cond_caches == ConditionalFkCaches(rows_of, fk_list, node)
        unionOf(col) == UNION {CacheGet(cond_caches, fk.constraint_name) :
                                  fk \in Range(ConditionalFksOf(fk_list, node, col))}
        condCols == {col \in Range(ConditionalColumns(fk_list, node)) :
                        col \notin uncondCols /\ unionOf(col) # {}}
    IN  [col \in uncondCols \cup condCols |->
            IF col \in uncondCols THEN ParentVals(rows_of, mine[lastOf(col)])
            ELSE unionOf(col)]

\* the position of x in the sequence s (list.index)
IndexOf(s, x) == CHOOSE i \in DOMAIN s : s[i] = x /\ \A j \in DOMAIN s : s[j] = x => i <= j

\* enum_validators: parent column -> the child enum column's declared values
EnumValidators(tmeta, comp) ==
    LET isEnum(i) == /\ HasColumn(tmeta, comp.child_columns[i])
                     /\ ColumnMeta(tmeta, comp.child_columns[i]).data_type = "enum"
        idx == {i \in DOMAIN comp.child_columns : isEnum(i)}
        lastFor(pcol) == CHOOSE i \in idx :
                            /\ comp.referenced_columns[i] = pcol
                            /\ \A j \in idx : comp.referenced_columns[j] = pcol => j <= i
    IN  [pcol \in {comp.referenced_columns[i] : i \in idx} |->
            ColumnMeta(tmeta, comp.child_columns[lastFor(pcol)]).enum_values]

\* the parent rows that pass the enum validators
FilterByEnum(parent_rows, validators) ==
    IF DOMAIN validators = {} THEN parent_rows
    ELSE SelectSeq(parent_rows,
                   LAMBDA pr : /\ IsTruthyRow(pr)
                               /\ \A pcol \in DOMAIN validators :
                                    Get(pr, pcol) \in validators[pcol])

\* parent_row_caches.get(parent_table, [])
ParentRowsOf(rows_of, comp) ==
    IF comp.referenced_table_name \in DOMAIN rows_of
    THEN rows_of[comp.referenced_table_name] ELSE << >>

\* filtered_parent_caches.get(constraint_name, [])
ValidParentRows(rows_of, tmeta, comp) ==
    LET parent_rows == ParentRowsOf(rows_of, comp)
    IN  IF parent_rows = << >> THEN << >>
        ELSE FilterByEnum(parent_rows, EnumValidators(tmeta, comp))

---------------------------------------------------------------------------
(* FK resolution: pre-allocation of primary keys that are foreign keys *)

Prefix(s, n) == IF n < Len(s) THEN SubSeq(s, 1, n) ELSE s

PkFkColumns(tmeta, fk_cols) == Range(tmeta.pk_columns) \cap fk_cols

CompositeFkWithPk(tmeta, comps, node) ==
    SelectSeq(CompositeCfgs(comps, node),
              LAMBDA comp : Range(comp.child_columns) \cap Range(tmeta.pk_columns) # {})

\* ordered_single_fk_pk_cols
OrderedSingleFkPkCols(tmeta, comps, node, fk_cols) ==
    SelectSeq(tmeta.pk_columns,
              LAMBDA c : c \in PkFkColumns(tmeta, fk_cols)
                         /\ c \notin CompositeColumnsAll(comps, node))

\* pk_value_pools and pool_sizes after the loop with its break: an empty pool
\* resets pk_value_pools but leaves the sizes collected so far in pool_sizes
PkValuePools(caches, ordered) ==
    LET empties == {i \in DOMAIN ordered : CacheGet(caches, ordered[i]) = {}}
        stop == IF empties = {} THEN Len(ordered) + 1
                ELSE CHOOSE i \in empties : \A j \in empties : i <= j
    IN  [pools |-> IF empties = {} THEN [i \in DOMAIN ordered |-> CacheGet(caches, ordered[i])]
                   ELSE << >>,
         sizes |-> [i \in 1..(stop - 1) |-> Cardinality(CacheGet(caches, ordered[i]))]]

\* pk_cols_in_this_fk
PkColsInFk(tmeta, comp) ==
    SelectSeq(tmeta.pk_columns, LAMBDA c : c \in Range(comp.child_columns))

\* child_to_parent_map[col] (dict(zip(..)): the last pair of a child column wins)
ChildToParent(comp, col) ==
    comp.referenced_columns[CHOOSE i \in DOMAIN comp.child_columns :
        /\ comp.child_columns[i] = col
        /\ \A j \in DOMAIN comp.child_columns : comp.child_columns[j] = col => j <= i]

\* unique_combos of one composite FK with PK overlap
UniqueCombos(rows_of, tmeta, comp) ==
    LET parent_rows == FilterByEnum(ParentRowsOf(rows_of, comp), EnumValidators(tmeta, comp))
        pk_cols == PkColsInFk(tmeta, comp)
        parent_cols_for_pk == [i \in DOMAIN pk_cols |-> ChildToParent(comp, pk_cols[i])]
    IN  {t \in {TupleOf(pr, parent_cols_for_pk) :
                   pr \in {r \in Range(parent_rows) : IsTruthyRow(r)}} : ~HasNone(t)}

\* composite_fk_pk_combos and composite_fk_pk_combo_cols: the first composite FK
\* with PK overlap that has a combination
CompositeFkPkCombos(rows_of, tmeta, comps, node) ==
    LET with_pk == CompositeFkWithPk(tmeta, comps, node)
        having == {i \in DOMAIN with_pk : UniqueCombos(rows_of, tmeta, with_pk[i]) # {}}
    IN  IF having = {} THEN [combos |-> {}, cols |-> << >>]
        ELSE LET first == CHOOSE i \in having : \A j \in having : i <= j
             IN  [combos |-> UniqueCombos(rows_of, tmeta, with_pk[first]),
                  cols |-> PkColsInFk(tmeta, with_pk[first])]

RECURSIVE Product(_)
Product(sizes) == IF sizes = << >> THEN 1 ELSE sizes[1] * Product(Tail(sizes))

\* one combination only: the first value of every pool
FirstOfEachPool(pools) ==
    {[i \in DOMAIN pools |-> CHOOSE v \in pools[i] : \A w \in pools[i] : v <= w]}

\* itertools.product(*pk_value_pools)
PoolProduct(pools) ==
    {t \in [DOMAIN pools -> UNION Range(pools)] : \A i \in DOMAIN pools : t[i] \in pools[i]}

\* full_combo: merge of a composite combination and a single-column
\* combination in PK column order
FullCombo(all_cols, combo_cols, single_cols, comp_combo, single_combo) ==
    [i \in DOMAIN all_cols |->
        IF all_cols[i] \in Range(combo_cols)
        THEN comp_combo[IndexOf(combo_cols, all_cols[i])]
        ELSE single_combo[IndexOf(single_cols, all_cols[i])]]

NoPreAllocation(rows) ==
    [rows |-> rows, pre_allocated_pk |-> << >>,
     pre_allocated_pk_tuples |-> << >>, pre_allocated_pk_cols |-> << >>]

\* The outcomes of the pre-allocation block: the (possibly truncated) rows,
\* pre_allocated_pk, pre_allocated_pk_tuples and pre_allocated_pk_cols.  An
\* empty sequence stands for both None and an empty list: the code only tests
\* these for truthiness.  The random-sampling branches (more than 100000
\* combinations) produce a subset of the outcomes of the shuffled product.
PreAllocations(rows_of, tmeta, fk_list, comps, node, fk_cols, rows) ==
    LET pk_fk_columns == PkFkColumns(tmeta, fk_cols)
        caches == ParentCaches(rows_of, fk_list, node)
    IN
    IF pk_fk_columns = {} THEN {NoPreAllocation(rows)}
    ELSE IF Len(tmeta.pk_columns) = 1 /\ tmeta.pk_columns[1] \in pk_fk_columns
    THEN LET unique_parent_vals == CacheGet(caches, tmeta.pk_columns[1])
             kept == Prefix(rows, Cardinality(unique_parent_vals))
         IN  {[rows |-> kept, pre_allocated_pk |-> p,
               pre_allocated_pk_tuples |-> << >>, pre_allocated_pk_cols |-> << >>] :
                 p \in ShuffledPrefixes(unique_parent_vals, Len(kept))}
    ELSE IF Len(tmeta.pk_columns) > 1
    THEN LET ordered == OrderedSingleFkPkCols(tmeta, comps, node, fk_cols)
             pp == PkValuePools(caches, ordered)
             cc == CompositeFkPkCombos(rows_of, tmeta, comps, node)
             can_generate == pp.pools # << >> \/ cc.combos # {}
             max_combinations ==
                 (IF cc.combos # {} THEN Cardinality(cc.combos) ELSE 1) * Product(pp.sizes)
             kept == Prefix(rows, max_combinations)
             hybrid_cols == SelectSeq(tmeta.pk_columns,
                                LAMBDA c : c \in Range(cc.cols) \/ c \in Range(ordered))
             all_cols == IF cc.combos # {} /\ pp.pools # << >> THEN hybrid_cols
                         ELSE IF cc.combos # {} THEN cc.cols ELSE ordered
             all_combinations ==
                 IF cc.combos # {} /\ pp.pools # << >>
                 THEN {FullCombo(all_cols, cc.cols, ordered, c, sgl) :
                          c \in cc.combos, sgl \in PoolProduct(pp.pools)}
                 ELSE IF cc.combos # {} THEN cc.combos
                 ELSE PoolProduct(pp.pools)
         IN  IF (ordered # << >> \/ CompositeFkWithPk(tmeta, comps, node) # << >>)
                /\ can_generate
             THEN {[rows |-> kept, pre_allocated_pk |-> << >>,
                    pre_allocated_pk_tuples |-> t, pre_allocated_pk_cols |-> all_cols] :
                      t \in ShuffledPrefixes(all_combinations, Len(kept))}
             ELSE {NoPreAllocation(rows)}
    ELSE {NoPreAllocation(rows)}

\* composite_pk_fk_overlap: the composite FKs that need PK uniqueness tracking
CompositePkFkOverlap(tmeta, comps, node, pre) ==
    {comp.constraint_name : comp \in
        {c \in Range(CompositeCfgs(comps, node)) :
            LET overlap == Range(c.child_columns) \cap Range(tmeta.pk_columns)
                pre_assigned == Range(pre.pre_allocated_pk_cols)
                should_skip ==
                    /\ pre.pre_allocated_pk_tuples # << >>
                    /\ pre.pre_allocated_pk_cols # << >>
                    /\ (overlap \cap pre_assigned # {} \/ Cardinality(pre_assigned) >= 2)
            IN  overlap # {} /\ Len(tmeta.pk_columns) > 1 /\ ~should_skip}}

---------------------------------------------------------------------------
(* FK resolution: one row of "for row_idx, row in enumerate(rows)" *)

\* evaluate_fk_condition(condition, row): an empty condition holds, otherwise
\* the row's value of the condition column must equal the literal
evaluate_fk_condition(condition, row) ==
    condition = NoCondition \/ Get(row, condition.column) = condition.value

\* the pre-allocated tuple of the row is written to pre_allocated_pk_cols
RECURSIVE AssignTuple(_, _, _)
AssignTuple(row, cols, pk_tuple) ==
    IF cols = << >> THEN row
    ELSE AssignTuple(Put(row, Head(cols), Head(pk_tuple)), Tail(cols), Tail(pk_tuple))

WithPreAllocatedTuple(r, row) ==
    IF r.pre_allocated_pk_tuples # << >> /\ r.idx < Len(r.pre_allocated_pk_tuples)
    THEN AssignTuple(row, r.pre_allocated_pk_cols, r.pre_allocated_pk_tuples[r.idx + 1])
    ELSE row

\* skip_this_fk: a child column of the composite FK is in a UNIQUE constraint
\* and already holds an integer
SkipThisFk(s, node, comp, row) ==
    \E c \in Range(comp.child_columns) :
        /\ c \in AllUniqueCols(s, node)
        /\ Get(row, c) # None
        /\ HasColumn(s.meta[node], c)
        /\ IsIntType(ColumnMeta(s.meta[node], c))

\* the composite FK is skipped: its PK columns were all pre-assigned
PreAssignedSkip(tmeta, comp, r) ==
    LET fk_pk_overlap == Range(comp.child_columns) \cap Range(tmeta.pk_columns)
    IN  /\ r.pre_allocated_pk_tuples # << >>
        /\ r.pre_allocated_pk_cols # << >>
        /\ fk_pk_overlap # {}
        /\ fk_pk_overlap \subseteq Range(r.pre_allocated_pk_cols)

\* the used-set is left as it was
UsedKept(used, pk_tuple) == used

\* used_composite_pk_combos.add(pk_tuple)
UsedAfter(used, pk_tuple) == used \cup {pk_tuple}

\* One composite FK applied to st = [row, used, skipped].  Three paths: the
\* parent row matching the pre-allocated PK, PK-overlap tracking over the
\* shuffled parents, random parent choice.
CompositeStep(s, rows_of, node, fk_cols, r, overlap_names, comp, st) ==
    LET tmeta == s.meta[node]
        valid_parent_rows == ValidParentRows(rows_of, tmeta, comp)
        pk_fk_columns == PkFkColumns(tmeta, fk_cols)
        has_pk_fk == \E c \in Range(comp.child_columns) : c \in pk_fk_columns
        assign(pr) == CopyCols(st.row, comp.child_columns, comp.referenced_columns, pr)
    IN
    IF valid_parent_rows = << >> \/ SkipThisFk(s, node, comp, st.row)
       \/ PreAssignedSkip(tmeta, comp, r)
    THEN {st}
    ELSE IF has_pk_fk /\ r.pre_allocated_pk # << >>
    THEN LET first == CHOOSE i \in DOMAIN comp.child_columns :
                         /\ comp.child_columns[i] \in pk_fk_columns
                         /\ \A j \in DOMAIN comp.child_columns :
                              comp.child_columns[j] \in pk_fk_columns => i <= j
             parent_col_for_pk ==
                 comp.referenced_columns[IndexOf(comp.child_columns, comp.child_columns[first])]
             target_val == r.pre_allocated_pk[r.idx + 1]
             matching_parent_rows ==
                 {pr \in Range(valid_parent_rows) :
                     IsTruthyRow(pr) /\ Get(pr, parent_col_for_pk) = target_val}
         IN  IF matching_parent_rows = {} THEN {st}
             ELSE {[st EXCEPT !.row = assign(pr)] : pr \in matching_parent_rows}
    ELSE IF comp.constraint_name \in overlap_names
    THEN LET usable == {pr \in Range(valid_parent_rows) :
                           /\ IsTruthyRow(pr)
                           /\ TupleOf(assign(pr), tmeta.pk_columns) \notin st.used}
         IN  IF usable = {} THEN {[st EXCEPT !.skipped = TRUE]}
             ELSE {[st EXCEPT !.row = assign(pr),
                              !.used = UsedAfter(@, TupleOf(assign(pr), tmeta.pk_columns))] :
                      pr \in usable}
    ELSE {[st EXCEPT !.row = assign(pr)] : pr \in Range(valid_parent_rows)}

\* "for comp in composite_cfgs", left by break once the row is skipped
RECURSIVE CompositeOutcomes(_, _, _, _, _, _, _, _)
CompositeOutcomes(s, rows_of, node, fk_cols, r, overlap_names, todo, st) ==
    IF todo = << >> \/ st.skipped THEN {st}
    ELSE UNION {CompositeOutcomes(s, rows_of, node, fk_cols, r, overlap_names, Tail(todo), nxt) :
                   nxt \in CompositeStep(s, rows_of, node, fk_cols, r, overlap_names,
                                         Head(todo), st)}

\* the conditional FKs of one column that would assign it: predicate true and a
\* non-empty cache; the loop takes the first of them and breaks
AssigningConditionalFks(rows_of, fk_list, node, col, row) ==
    SelectSeq(ConditionalFksOf(fk_list, node, col),
              LAMBDA fk : /\ evaluate_fk_condition(fk.condition, row)
                          /\ CacheGet(ConditionalFkCaches(rows_of, fk_list, node),
                                      fk.constraint_name) # {})

\* the column is not handled by the single-column FK loops
SkippedFkColumn(s, node, comps, fk_cols, r, col) ==
    \/ col \in CompositeColumnsAll(comps, node)
    \/ (r.pre_allocated_pk_tuples # << >> /\ col \in PkFkColumns(s.meta[node], fk_cols))

\* "for fk_col, fk_list in conditional_fks_by_column.items()" over
\* st = [row, by]; by maps each column assigned here to the FK that assigned it
RECURSIVE ConditionalOutcomes(_, _, _, _, _, _, _, _)
ConditionalOutcomes(s, rows_of, fk_list, comps, node, r, todo, st) ==
    IF todo = << >> THEN {st}
    ELSE LET col == Head(todo)
             fk_cols == FkColumnsOf(fk_list, comps, node)
             firing == AssigningConditionalFks(rows_of, fk_list, node, col, st.row)
             after ==
                 IF SkippedFkColumn(s, node, comps, fk_cols, r, col) \/ firing = << >>
                 THEN {st}
                 ELSE {[row |-> Put(st.row, col, v),
                        by |-> Put(st.by, col, firing[1].constraint_name)] :
                          v \in CacheGet(ConditionalFkCaches(rows_of, fk_list, node),
                                         firing[1].constraint_name)}
         IN  UNION {ConditionalOutcomes(s, rows_of, fk_list, comps, node, r, Tail(todo), nxt) :
                       nxt \in after}

\* "for fk in self.fks" for the unconditional FKs over st = [row, by, uncond];
\* uncond collects the columns this loop wrote
RECURSIVE UnconditionalOutcomes(_, _, _, _, _, _, _, _)
UnconditionalOutcomes(s, rows_of, fk_list, comps, node, r, todo, st) ==
    IF todo = << >> THEN {st}
    ELSE LET fk == Head(todo)
             fk_col == fk.column_name
             tmeta == s.meta[node]
             fk_cols == FkColumnsOf(fk_list, comps, node)
             parent_vals == CacheGet(ParentCaches(rows_of, fk_list, node), fk_col)
             written(v) == [st EXCEPT !.row = Put(@, fk_col, v), !.uncond = @ \cup {fk_col}]
             after ==
                 IF \/ fk.table_name # node
                    \/ HasCondition(fk)
                    \/ fk_col \in DOMAIN st.by
                    \/ SkippedFkColumn(s, node, comps, fk_cols, r, fk_col)
                    \/ ~HasColumn(tmeta, fk_col)
                    \/ ColumnMeta(tmeta, fk_col).is_nullable # "NO"
                 THEN {st}
                 ELSE IF r.pre_allocated_pk # << >> /\ fk_col \in PkFkColumns(tmeta, fk_cols)
                 THEN {written(r.pre_allocated_pk[r.idx + 1])}
                 ELSE IF parent_vals # {} THEN {written(v) : v \in parent_vals}
                 ELSE {written(None)}
         IN  UNION {UnconditionalOutcomes(s, rows_of, fk_list, comps, node, r, Tail(todo), nxt) :
                       nxt \in after}

---------------------------------------------------------------------------
(* generate(): FK resolution per table, INSERT emission, DELETE emission *)

\* self.args.batch_size
batch_size == 2

Min(a, b) == IF a < b THEN a ELSE b

\* the lines of the two SQL streams.  An INSERT carries the columns, the
\* position of its first row in the table's row list and the value lists
\* handed to render_insert_statement; a DELETE the position of its row and the
\* columns of its WHERE clause
CommentLine(node) ==
    [op |-> "COMMENT", node |-> node, cols |-> << >>, first |-> 0, rows_values |-> << >>]

InsertLine(node, cols, first, rows_values) ==
    [op |-> "INSERT", node |-> node, cols |-> cols, first |-> first,
     rows_values |-> rows_values]

SetLastIdLine(node) ==
    [op |-> "SET", node |-> node, cols |-> << >>, first |-> 0, rows_values |-> << >>]

DeleteLine(node, cols, first, row_values) ==
    [op |-> "DELETE", node |-> node, cols |-> cols, first |-> first,
     rows_values |-> << row_values >>]

ColumnNames(tmeta) == [i \in DOMAIN tmeta.columns |-> tmeta.columns[i].name]

\* cols_to_include
ColsToInclude(tmeta, node, forced, rows) ==
    SelectSeq(ColumnNames(tmeta),
              LAMBDA c :
                 LET skip_col == /\ c \in Range(tmeta.pk_columns)
                                 /\ tmeta.auto_increment
                                 /\ node \notin forced
                                 /\ \A i \in DOMAIN rows : Get(rows[i], c) = None
                 IN  ~skip_col /\ \E i \in DOMAIN rows : Get(rows[i], c) # None)

\* the lines generate() appends for one table with a non-empty row list
InsertLinesFor(tmeta, node, forced, rows) ==
    LET cols == ColsToInclude(tmeta, node, forced, rows)
        n == Len(rows)
        interleave == tmeta.auto_increment /\ node \notin forced
        chunks == (n + batch_size - 1) \div batch_size
        chunk_first(k) == (k - 1) * batch_size + 1
        chunk_last(k) == Min(n, k * batch_size)
    IN  << CommentLine(node) >> \o
        (IF interleave
         THEN [j \in 1..(2 * n) |->
                  IF j % 2 = 1
                  THEN InsertLine(node, cols, (j + 1) \div 2,
                                  << TupleOf(rows[(j + 1) \div 2], cols) >>)
                  ELSE SetLastIdLine(node)]
         ELSE [k \in 1..chunks |->
                  InsertLine(node, cols, chunk_first(k),
                             [i \in 1..(chunk_last(k) - chunk_first(k) + 1) |->
                                 TupleOf(rows[chunk_first(k) + i - 1], cols)])])

\* resolve_fks_batch up to the row loop: caches and pre-allocation
ResBegin ==
    /\ pc = "resolve"
    /\ res = NoRes
    /\ node_idx <= Len(order)
    /\ LET node == order[node_idx]
           fk_cols == FkColumnsOf(fks, logical_composite_fks, node)
           rows == generated_rows[node]
       IN  \E pre \in IF rows = << >> THEN {NoPreAllocation(rows)}
                      ELSE PreAllocations(generated_rows, scn.meta[node], fks,
                                          logical_composite_fks, node, fk_cols, rows) :
              res' = [node |-> node, rows |-> pre.rows, idx |-> 0,
                      pre_allocated_pk |-> pre.pre_allocated_pk,
                      pre_allocated_pk_tuples |-> pre.pre_allocated_pk_tuples,
                      pre_allocated_pk_cols |-> pre.pre_allocated_pk_cols,
                      used_composite_pk_combos |-> {}, resolved_rows |-> << >>,
                      log |-> << >>]
    /\ UNCHANGED << aux_vars, scn, cfg_rows, pc, node_idx, metadata, fks, logical_composite_fks,
                    forced_explicit_parents, pk_next_vals, nodes, edges, indeg, q, order,
                    generated_rows, composite_unique_counters, gen,
                    insert_sql_lines, delete_sql_lines, par,
                    global_unique_value_pools >>

\* resolve_fks_batch: one iteration of the row loop
ResRow ==
    /\ pc = "resolve"
    /\ res # NoRes
    /\ res.idx < Len(res.rows)
    /\ LET node == res.node
           row == res.rows[res.idx + 1]
           fk_cols == FkColumnsOf(fks, logical_composite_fks, node)
           overlap_names ==
               CompositePkFkOverlap(scn.meta[node], logical_composite_fks, node, res)
       IN  IF ~IsTruthyRow(row)
           THEN res' = [res EXCEPT !.idx = @ + 1]
           ELSE \E c \in CompositeOutcomes(scn, generated_rows, node, fk_cols, res,
                            overlap_names, CompositeCfgs(logical_composite_fks, node),
                            [row |-> WithPreAllocatedTuple(res, row),
                             used |-> res.used_composite_pk_combos, skipped |-> FALSE]) :
                  IF c.skipped
                  THEN res' = [res EXCEPT !.idx = @ + 1, !.used_composite_pk_combos = c.used]
                  ELSE \E d \in ConditionalOutcomes(scn, generated_rows, fks,
                                   logical_composite_fks, node, res,
                                   ConditionalColumns(fks, node),
                                   [row |-> c.row, by |-> << >>]) :
                       \E u \in UnconditionalOutcomes(scn, generated_rows, fks,
                                   logical_composite_fks, node, res, fks,
                                   [row |-> d.row, by |-> d.by, uncond |-> {}]) :
                          res' = [res EXCEPT
                                    !.idx = @ + 1,
                                    !.used_composite_pk_combos = c.used,
                                    !.resolved_rows = Append(@, u.row),
                                    !.log = Append(@, [before |-> row, by |-> u.by,
                                                       uncond |-> u.uncond])]
    /\ UNCHANGED << aux_vars, scn, cfg_rows, pc, node_idx, metadata, fks, logical_composite_fks,
                    forced_explicit_parents, pk_next_vals, nodes, edges, indeg, q, order,
                    generated_rows, composite_unique_counters, gen,
                    insert_sql_lines, delete_sql_lines, par,
                    global_unique_value_pools >>

\* generate(): the resolved rows replace the table's rows and its INSERTs are
\* emitted; after the last table the DELETE stream follows
ResEnd ==
    /\ pc = "resolve"
    /\ res # NoRes
    /\ res.idx = Len(res.rows)
    /\ generated_rows' = [generated_rows EXCEPT ![res.node] = res.resolved_rows]
    /\ insert_sql_lines' =
          IF res.resolved_rows = << >> THEN insert_sql_lines
          ELSE insert_sql_lines \o InsertLinesFor(scn.meta[res.node], res.node,
                                                  forced_explicit_parents, res.resolved_rows)
    /\ res' = NoRes
    /\ IF node_idx = Len(order)
       THEN pc' = "deletes" /\ node_idx' = 1
       ELSE pc' = pc /\ node_idx' = node_idx + 1
    /\ UNCHANGED << aux_vars, scn, cfg_rows, metadata, fks, logical_composite_fks,
                    forced_explicit_parents, pk_next_vals, nodes, edges, indeg, q, order,
                    composite_unique_counters, gen, delete_sql_lines, par,
                    global_unique_value_pools >>

\* _generate_deletes: the lines of one table, rows in list order
DeleteLinesFor(tmeta, node, rows) ==
    LET by_pk(row) == /\ Len(tmeta.pk_columns) = 1
                      /\ Get(row, tmeta.pk_columns[1]) # None
        clauses(row) == SelectSeq(ColumnNames(tmeta), LAMBDA c : Get(row, c) # None)
        has_delete(i) == /\ IsTruthyRow(rows[i])
                         /\ (by_pk(rows[i]) \/ clauses(rows[i]) # << >>)
        line(i) == LET cols == IF by_pk(rows[i]) THEN tmeta.pk_columns ELSE clauses(rows[i])
                   IN  DeleteLine(node, cols, i, TupleOf(rows[i], cols))
        idxs == SelectSeq([i \in DOMAIN rows |-> i], has_delete)
    IN  << CommentLine(node) >> \o [k \in DOMAIN idxs |-> line(idxs[k])]

RECURSIVE DeleteLinesOver(_, _, _)
DeleteLinesOver(s, rows_of, todo) ==
    IF todo = << >> THEN << >>
    ELSE DeleteLinesFor(s.meta[Head(todo)], Head(todo), rows_of[Head(todo)])
         \o DeleteLinesOver(s, rows_of, Tail(todo))

\* _generate_deletes(order): "for node in reversed(order)"
GenerateDeletes ==
    /\ pc = "deletes"
    /\ delete_sql_lines' = DeleteLinesOver(scn, generated_rows, Reversed(order))
    /\ pc' = "done"
    /\ UNCHANGED << aux_vars, scn, cfg_rows, node_idx, metadata, fks, logical_composite_fks,
                    forced_explicit_parents, pk_next_vals, nodes, edges, indeg, q, order,
                    generated_rows, composite_unique_counters, gen, res,
                    insert_sql_lines, par,
                    global_unique_value_pools >>

Next ==
    \/ Introspect
    \/ TopoPop
    \/ TopoFinish
    \/ GenBegin
    \/ GenRow
    \/ GenEnd
    \/ ResBegin
    \/ ResRow
    \/ ResEnd
    \/ GenerateDeletes

Spec == Init /\ [][Next]_vars

\* the runs of the configurations whose emission covers interleaved and
\* batched INSERTs, DELETE by primary key and DELETE by column values
EmitScenarios == {ScnAutoParent, ScnUniqueFk, ScnJunction, ScnPkIsFk}

SpecEmit == InitWith(EmitScenarios, 0..MaxRows) /\ [][Next]_vars

---------------------------------------------------------------------------
(* Properties of the pipeline *)

\* the table's rows are final: FK resolution has replaced them
IsResolved(node) ==
    \/ pc \in {"deletes", "done"}
    \/ pc = "resolve" /\ \E i \in 1..(node_idx - 1) : order[i] = node

RowsAgreeOn(r1, r2, cols) == TupleOf(r1, cols) = TupleOf(r2, cols)

\* C1: once a table's rows are final, no two of them carry the same all
\* non-null tuple over the columns of one of the table's unique indexes.
C1_UniqueIndexTuplesDistinct ==
    \A node \in metadata :
        IsResolved(node) =>
            \A uc \in Range(scn.unique_constraints[node]) :
                \A i, j \in DOMAIN generated_rows[node] :
                    (i # j /\ ~HasNone(TupleOf(generated_rows[node][i], uc.columns)))
                        => ~RowsAgreeOn(generated_rows[node][i], generated_rows[node][j],
                                        uc.columns)

\* the values of the referenced column in the parent's rows
ReferencedValues(fk) ==
    {Get(pr, fk.referenced_column_name) : pr \in Range(generated_rows[fk.referenced_table_name])}

\* a conditional FK on the same column has a true predicate for the row
ConditionalFkApplies(fk, row) ==
    \E other \in Range(fks) :
        /\ other.table_name = fk.table_name
        /\ other.column_name = fk.column_name
        /\ HasCondition(other)
        /\ evaluate_fk_condition(other.condition, row)

\* the single-column FK governs the row: a conditional FK whose predicate
\* holds, or an unconditional FK on a column no conditional FK claims
FkGoverns(fk, row) ==
    IF HasCondition(fk) THEN evaluate_fk_condition(fk.condition, row)
    ELSE ~ConditionalFkApplies(fk, row)

\* C2: after the run, for every single-column FK governing a child row the
\* row's FK value is null, and then the column is nullable, or it is the
\* referenced column's value in some row of the parent table.
C2_FkValueIsNullOrParentValue ==
    pc = "done" =>
        \A k \in DOMAIN fks :
            \A row \in Range(generated_rows[fks[k].table_name]) :
                FkGoverns(fks[k], row) =>
                    LET v == Get(row, fks[k].column_name)
                        col == ColumnMeta(scn.meta[fks[k].table_name], fks[k].column_name)
                    IN  IF v = None THEN col.is_nullable = "YES"
                        ELSE v \in ReferencedValues(fks[k])

\* C3: after the run, for every composite FK the child row's tuple over the
\* FK's child columns is the tuple of the referenced columns of one parent row.
C3_CompositeTupleFromOneParentRow ==
    pc = "done" =>
        \A k \in DOMAIN logical_composite_fks :
            LET comp == logical_composite_fks[k]
            IN  \A row \in Range(generated_rows[comp.table_name]) :
                    \E pr \in Range(generated_rows[comp.referenced_table_name]) :
                        TupleOf(row, comp.child_columns) = TupleOf(pr, comp.referenced_columns)

\* the conditional FKs of the column whose predicate is true for the row, in
\* configuration order
TruePredicateFks(node, col, row) ==
    SelectSeq(ConditionalFksOf(fks, node, col),
              LAMBDA fk : evaluate_fk_condition(fk.condition, row))

\* C4: for every row resolved so far and every column with conditional FKs,
\* the conditional FK that assigned the column is the first in configuration
\* order whose predicate is true for the row, and the unconditional loop wrote
\* the column only if no conditional FK assigned it.
C4_FirstTrueConditionalFkAssigns ==
    \A k \in DOMAIN res.log :
        \A col \in Range(ConditionalColumns(fks, res.node)) :
            LET row == res.resolved_rows[k]
                true_fks == TruePredicateFks(res.node, col, row)
            IN  /\ col \in DOMAIN res.log[k].by =>
                      /\ true_fks # << >>
                      /\ res.log[k].by[col] = true_fks[1].constraint_name
                /\ col \in res.log[k].uncond => col \notin DOMAIN res.log[k].by

\* C5: after the run, a row for which a conditional FK's predicate is true
\* holds in the FK column a value of the referenced column of that FK's own
\* parent table.  A column left null, and an FK whose parent offers no value
\* at all, are not counted.
C5_ConditionalValueFromOwnParent ==
    pc = "done" =>
        \A k \in DOMAIN fks :
            (HasCondition(fks[k]) /\ ReferencedValues(fks[k]) \ {None} # {}) =>
                \A row \in Range(generated_rows[fks[k].table_name]) :
                    (/\ evaluate_fk_condition(fks[k].condition, row)
                     /\ Get(row, fks[k].column_name) # None)
                        => Get(row, fks[k].column_name) \in ReferencedValues(fks[k])

\* the INSERT and DELETE streams address a row by its table and its position
\* in the table's final row list
InsertLineOf(node, idx) ==
    {l \in DOMAIN insert_sql_lines :
        /\ insert_sql_lines[l].op = "INSERT"
        /\ insert_sql_lines[l].node = node
        /\ insert_sql_lines[l].first <= idx
        /\ idx < insert_sql_lines[l].first + Len(insert_sql_lines[l].rows_values)}

DeleteLineOf(node, idx) ==
    {l \in DOMAIN delete_sql_lines :
        /\ delete_sql_lines[l].op = "DELETE"
        /\ delete_sql_lines[l].node = node
        /\ delete_sql_lines[l].first = idx}

\* the rows that have both an INSERT and a DELETE
EmittedRows ==
    {r \in UNION {{[node |-> n, idx |-> i] : i \in DOMAIN generated_rows[n]} : n \in metadata} :
        InsertLineOf(r.node, r.idx) # {} /\ DeleteLineOf(r.node, r.idx) # {}}

InsertedBefore(r1, r2) ==
    \E l1 \in InsertLineOf(r1.node, r1.idx), l2 \in InsertLineOf(r2.node, r2.idx) :
        l1 < l2 \/ (l1 = l2 /\ r1.idx < r2.idx)

DeletedBefore(r1, r2) ==
    \E l1 \in DeleteLineOf(r1.node, r1.idx), l2 \in DeleteLineOf(r2.node, r2.idx) : l1 < l2

\* C7 (as stated): the DELETE stream is the strict reverse of the INSERT
\* stream: a row inserted before another row, of the same table or of another
\* one, is deleted after it.
C7_DeletesStrictlyReverseInserts ==
    pc = "done" =>
        \A r1, r2 \in EmittedRows : InsertedBefore(r1, r2) => DeletedBefore(r2, r1)

\* C7 (amended): the tables' DELETE blocks come in the reverse of the tables'
\* INSERT order, and inside one table the DELETEs follow the row order of the
\* INSERTs.
C7_DeletesReverseTablesKeepRowOrder ==
    pc = "done" =>
        \A r1, r2 \in EmittedRows :
            InsertedBefore(r1, r2) =>
                IF r1.node = r2.node THEN DeletedBefore(r1, r2) ELSE DeletedBefore(r2, r1)

\* two rows of one table and a row of another table are inserted and deleted
C7_TwoTablesTwoRowsDeleted ==
    /\ pc = "done"
    /\ \E r1, r2, r3 \in EmittedRows :
          /\ r1.node = r2.node /\ r1.idx < r2.idx
          /\ r3.node # r1.node
          /\ InsertedBefore(r3, r1)

\* the parent's primary key is assigned by the database: auto-increment and
\* not in the explicit-PK set
HasAutoAssignedPk(node) ==
    scn.meta[node].auto_increment /\ node \notin forced_explicit_parents

\* C10: every emitted row of a child with a NOT NULL FK to a parent whose
\* primary key is auto-assigned carries the FK column with a non-null value,
\* and an id of the parent has been captured before the child's INSERT.
C10_ChildFkRefersToCapturedParentId ==
    \A l \in DOMAIN insert_sql_lines :
        \A k \in DOMAIN fks :
            (/\ insert_sql_lines[l].op = "INSERT"
             /\ fks[k].table_name = insert_sql_lines[l].node
             /\ ColumnMeta(scn.meta[fks[k].table_name], fks[k].column_name).is_nullable = "NO"
             /\ HasAutoAssignedPk(fks[k].referenced_table_name)
             /\ fks[k].referenced_column_name
                    \in Range(scn.meta[fks[k].referenced_table_name].pk_columns))
            => /\ fks[k].column_name \in Range(insert_sql_lines[l].cols)
               /\ \A vals \in Range(insert_sql_lines[l].rows_values) :
                     vals[IndexOf(insert_sql_lines[l].cols, fks[k].column_name)] # None
               /\ \E m \in 1..(l - 1) :
                     insert_sql_lines[m] = SetLastIdLine(fks[k].referenced_table_name)


---------------------------------------------------------------------------
(* The dependency planner on arbitrary small FK graphs *)

\* the largest number of single-column FKs of a planner configuration
MaxTopoFks == 3

TopoTables == << "A", "B", "C" >>

\* the FK column of a child that references the table
TopoColumn(parent) ==
    CASE parent = "A" -> "a_id"
      [] parent = "B" -> "b_id"
      [] parent = "C" -> "c_id"
      [] parent = "Z" -> "z_id"

TopoTable ==
    Table(<< IntCol("id", "NO"), IntCol("a_id", "YES"), IntCol("b_id", "YES"),
             IntCol("c_id", "YES"), IntCol("z_id", "YES") >>, << "id" >>, 1, 0)

\* every FK from a configured table to a configured table, to itself, or to
\* the table Z that is not configured
TopoFkPool ==
    {FK(TopoColumn(parent), child, TopoColumn(parent), parent, "id", NoCondition) :
        child \in Range(TopoTables), parent \in Range(TopoTables) \cup {"Z"}}

TopoCompositePool ==
    {Comp("LOGICAL_C_A", "C", << "a_id", "z_id" >>, "A", << "id", "id" >>),
     Comp("LOGICAL_A_B", "A", << "b_id", "z_id" >>, "B", << "id", "id" >>)}

\* a set as a list, in some fixed order
RECURSIVE SeqOf(_)
SeqOf(S) == IF S = {} THEN << >>
            ELSE LET x == CHOOSE y \in S : TRUE IN << x >> \o SeqOf(S \ {x})

TopoScenarios ==
    {[name |-> "topo", tables |-> TopoTables,
      meta |-> [t \in Range(TopoTables) |-> TopoTable],
      unique_constraints |-> [t \in Range(TopoTables) |-> << >>],
      declared_fks |-> SeqOf(declared), logical_fks |-> << >>,
      composite_fks |-> SeqOf(composite),
      explicit_pk |-> {}, ignore_self_referential_fks |-> {}] :
        declared \in {S \in SUBSET TopoFkPool : Cardinality(S) <= MaxTopoFks},
        composite \in SUBSET TopoCompositePool}

NextTopo == Introspect \/ TopoPop \/ TopoFinish

SpecTopo == InitWith(TopoScenarios, {0}) /\ [][NextTopo]_vars

\* the parent -> child pairs of the FKs the planner is given, between
\* configured tables
FkGraph ==
    {<< fk.referenced_table_name, fk.table_name >> : fk \in Range(fks)}
    \cup {<< comp.referenced_table_name, comp.table_name >> :
             comp \in Range(logical_composite_fks)}

ConfiguredFkGraph == {e \in FkGraph : e[1] \in ConfigTables(scn) /\ e[2] \in ConfigTables(scn)}

\* the tables reachable from a table over at most k edges of the graph
RECURSIVE ReachableWithin(_, _, _)
ReachableWithin(graph, from, k) ==
    IF k = 0 THEN {}
    ELSE LET near == ReachableWithin(graph, from, k - 1)
         IN  near \cup {e[2] : e \in {g \in graph : g[1] = from \/ g[1] \in near}}

IsAcyclic(graph) ==
    \A n \in ConfigTables(scn) :
        n \notin ReachableWithin(graph, n, Cardinality(ConfigTables(scn)))

PositionIn(s, x) == CHOOSE i \in DOMAIN s : s[i] = x

\* C6: the order the planner returns holds every configured table exactly
\* once, and when the FK graph between the configured tables has no cycle
\* every parent stands before each of its children.
C6_OrderIsPermutationParentsFirst ==
    pc \notin {"start", "topo"} =>
        /\ Len(order) = Cardinality(ConfigTables(scn))
        /\ Range(order) = ConfigTables(scn)
        /\ IsAcyclic(ConfiguredFkGraph) =>
              \A e \in ConfiguredFkGraph : PositionIn(order, e[1]) < PositionIn(order, e[2])

\* the planner has ordered an acyclic chain grandparent -> parent -> child
C6_ChainOrdered ==
    /\ pc = "generate"
    /\ IsAcyclic(ConfiguredFkGraph)
    /\ \E e1, e2 \in ConfiguredFkGraph : e1[2] = e2[1]


---------------------------------------------------------------------------
(* generate_parallel: a table generated in chunks by a pool of worker threads *)

\* the smallest chunk, and the chunks per worker the chunk size aims at
MinChunkRows == 100
ChunksPerWorker == 4

\* the number of row steps after which the schedule stops preempting: from
\* then on the lowest-numbered worker that holds a chunk runs
MaxInterleavedRows == 3

Workers == 1..max_workers

\* chunk_size and chunks of generate_parallel
ChunkSize(num_rows) == Max(MinChunkRows, num_rows \div (max_workers * ChunksPerWorker))

Chunks(num_rows) ==
    LET chunk_size == ChunkSize(num_rows)
        count == (num_rows + chunk_size - 1) \div chunk_size
    IN  [k \in 1..count |->
            [start_idx |-> (k - 1) * chunk_size,
             end_idx |-> Min(k * chunk_size, num_rows)]]

\* table Q: a PK taken from the table's PK sequence and an INT column with a
\* UNIQUE index, which generate_batch_fast fills with batch_idx
ScnParallel ==
    [name |-> "parallel", tables |-> << "Q" >>,
     meta |-> [t \in {"Q"} |->
        Table(<< IntCol("id", "NO"), IntCol("u", "NO") >>, << "id" >>, None, 0)],
     unique_constraints |-> [t \in {"Q"} |-> << UC("UQ_Q_U", << "u" >>) >>],
     declared_fks |-> << >>, logical_fks |-> << >>, composite_fks |-> << >>,
     explicit_pk |-> {}, ignore_self_referential_fks |-> {}]

\* generate_parallel: the chunks of the table are submitted to the executor
ParBegin ==
    /\ pc = "generate"
    /\ gen = NoGen
    /\ par = NoPar
    /\ node_idx <= Len(order)
    /\ LET node == order[node_idx]
       IN  /\ node \in metadata
           /\ ~(NumRows(cfg_rows[node]) < ParallelMinRows \/ max_workers = 1)
           /\ par' = [node |-> node, pending |-> Chunks(NumRows(cfg_rows[node])),
                      running |-> [w \in Workers |-> NoGen], all_rows |-> << >>,
                      steps |-> 0]
           /\ global_unique_value_pools' \in
                 InitializeGlobalUniquePools(scn, node, NumRows(cfg_rows[node]),
                                             global_unique_value_pools)
    /\ UNCHANGED << aux_vars, scn, cfg_rows, pc, node_idx, metadata, fks, logical_composite_fks,
                    forced_explicit_parents, pk_next_vals, nodes, edges, indeg, q, order,
                    generated_rows, composite_unique_counters, gen, res,
                    insert_sql_lines, delete_sql_lines >>

IdleWorkers == {w \in Workers : par.running[w] = NoGen}

BusyWorkers == Workers \ IdleWorkers

LowestOf(S) == CHOOSE w \in S : \A v \in S : w <= v

\* the executor hands the next submitted chunk to an idle worker thread
ParTake ==
    /\ pc = "generate"
    /\ par # NoPar
    /\ par.pending # << >>
    /\ IdleWorkers # {}
    /\ LET w == LowestOf(IdleWorkers)
           chunk == Head(par.pending)
       IN  par' = [par EXCEPT
                     !.pending = Tail(@),
                     !.running[w] =
                         [node |-> par.node, idx |-> chunk.start_idx, end |-> chunk.end_idx,
                          rows |-> << >>,
                          local_trackers |-> EmptyTrackers(scn.unique_constraints[par.node])]]
    /\ UNCHANGED << aux_vars, scn, cfg_rows, pc, node_idx, metadata, fks, logical_composite_fks,
                    forced_explicit_parents, pk_next_vals, nodes, edges, indeg, q, order,
                    generated_rows, composite_unique_counters, gen, res,
                    insert_sql_lines, delete_sql_lines,
                    global_unique_value_pools >>

\* the worker may run now: chunks are taken as soon as a worker is idle, and
\* after MaxInterleavedRows row steps only the lowest busy worker runs
MayRun(w) ==
    /\ (par.pending = << >> \/ IdleWorkers = {})
    /\ (par.steps < MaxInterleavedRows \/ w = LowestOf(BusyWorkers))

\* generate_batch_fast in a worker thread: one iteration of the batch_idx loop.
\* The row's shared accesses are the increments of the PK counter and of the
\* sequential counters, each under its lock.
ParRow(w) ==
    /\ pc = "generate"
    /\ par # NoPar
    /\ par.running[w] # NoGen
    /\ par.running[w].idx < par.running[w].end
    /\ MayRun(w)
    /\ LET node == par.node
           chunk == par.running[w]
           fk_cols == FkColumnsOf(fks, logical_composite_fks, node)
       IN  \E row \in RowChoices(scn, node, chunk.idx, fk_cols, forced_explicit_parents,
                                 composite_unique_counters, pk_next_vals,
                                 global_unique_value_pools) :
              LET checked == ValidateUnique(row, scn.unique_constraints[node],
                                            chunk.local_trackers)
              IN  /\ par' = [par EXCEPT
                               !.steps = Min(@ + 1, MaxInterleavedRows),
                               !.running[w] =
                                   [chunk EXCEPT
                                      !.idx = @ + 1,
                                      !.rows = IF checked.valid THEN Append(@, row) ELSE @,
                                      !.local_trackers = checked.trackers]]
                  /\ composite_unique_counters' =
                        CountersAfterRow(scn, node, fk_cols, composite_unique_counters)
                  /\ pk_next_vals' = PkCounterAfterRow(scn.meta[node], node, pk_next_vals)
                  /\ global_unique_value_pools' =
                        PoolsAfterRow(scn, node, global_unique_value_pools)
    /\ UNCHANGED << aux_vars, scn, cfg_rows, pc, node_idx, metadata, fks, logical_composite_fks,
                    forced_explicit_parents, nodes, edges, indeg, q, order,
                    generated_rows, gen, res, insert_sql_lines, delete_sql_lines >>

\* as_completed: the rows of a finished chunk are appended to all_rows
ParChunkEnd(w) ==
    /\ pc = "generate"
    /\ par # NoPar
    /\ par.running[w] # NoGen
    /\ par.running[w].idx = par.running[w].end
    /\ par' = [par EXCEPT !.all_rows = @ \o par.running[w].rows, !.running[w] = NoGen]
    /\ UNCHANGED << aux_vars, scn, cfg_rows, pc, node_idx, metadata, fks, logical_composite_fks,
                    forced_explicit_parents, pk_next_vals, nodes, edges, indeg, q, order,
                    generated_rows, composite_unique_counters, gen, res,
                    insert_sql_lines, delete_sql_lines,
                    global_unique_value_pools >>

\* generate_parallel: every future has completed, all_rows become the table's rows
ParEnd ==
    /\ pc = "generate"
    /\ par # NoPar
    /\ par.pending = << >>
    /\ BusyWorkers = {}
    /\ generated_rows' = [generated_rows EXCEPT ![par.node] = par.all_rows]
    /\ par' = NoPar
    /\ IF node_idx = Len(order)
       THEN pc' = "resolve" /\ node_idx' = 1
       ELSE pc' = pc /\ node_idx' = node_idx + 1
    /\ UNCHANGED << aux_vars, scn, cfg_rows, metadata, fks, logical_composite_fks,
                    forced_explicit_parents, pk_next_vals, nodes, edges, indeg, q, order,
                    composite_unique_counters, gen, res,
                    insert_sql_lines, delete_sql_lines,
                    global_unique_value_pools >>

NextPar ==
    \/ Introspect
    \/ TopoPop
    \/ TopoFinish
    \/ ParBegin
    \/ ParTake
    \/ \E w \in Workers : ParRow(w)
    \/ \E w \in Workers : ParChunkEnd(w)
    \/ ParEnd

SpecPar == InitWith({ScnParallel}, {ParallelMinRows}) /\ [][NextPar]_vars

\* the row the table's generator builds at batch_idx in the run whose chunks
\* execute one after the other in submission order: the PK counter has then
\* advanced once per earlier batch_idx
SequentialRunRow(node, batch_idx) ==
    LET start == PreparePkSequences(scn, forced_explicit_parents)
    IN  CHOOSE row \in RowChoices(scn, node, batch_idx,
                                  FkColumnsOf(fks, logical_composite_fks, node),
                                  forced_explicit_parents, << >>,
                                  [t \in DOMAIN start |-> start[t] + batch_idx],
                                  << >>) : TRUE

SequentialRunRows(node) ==
    {SequentialRunRow(node, b) : b \in 0..(NumRows(cfg_rows[node]) - 1)}

\* C8: the rows a table ends value generation with are, as a multiset, the rows
\* of the run whose chunks execute one after the other, whatever the
\* interleaving of the worker threads was.
C8_RowsSameForEveryInterleaving ==
    (pc = "resolve" /\ scn = ScnParallel) =>
        \A node \in metadata :
            /\ Len(generated_rows[node]) = Cardinality(SequentialRunRows(node))
            /\ Range(generated_rows[node]) = SequentialRunRows(node)


---------------------------------------------------------------------------
(* value_generator.py: ValueGenerator.generate_batch *)

\* classify_columns_for_generation: discriminator_cols
DiscriminatorCols(fk_list, node) ==
    {fk.condition.column : fk \in {f \in Range(NodeFks(fk_list, node)) : HasCondition(f)}}

\* classify_columns_for_generation: cols_needing_sequential; an enum
\* discriminator column counts as controlled
VgColsNeedingSequential(s, fk_list, fk_cols, node) ==
    LET tmeta == s.meta[node]
        controlled(cname) ==
            \/ IsControlled(ColumnMeta(tmeta, cname))
            \/ (/\ cname \in DiscriminatorCols(fk_list, node)
                /\ HasColumn(tmeta, cname)
                /\ ColumnMeta(tmeta, cname).data_type = "enum")
            \/ cname \in fk_cols
            \/ cname \in Range(tmeta.pk_columns)
    IN  UNION {IF /\ \E c \in Range(uc.columns) : controlled(c)
                  /\ \E c \in Range(uc.columns) : ~controlled(c)
               THEN {c \in Range(uc.columns) : ~controlled(c)}
               ELSE {} :
               uc \in Range(CompositeUniqueConstraints(s, node))}

\* _generate_single_row: the values of one column, in the order of its rules.
\* The PK column of an auto-increment table is None whether or not the table
\* is in the explicit-PK set, which ValueGenerator is not given.
VgColumnChoices(s, node, col, batch_idx, fk_list, fk_cols, counters, pools) ==
    IF col.name \in Range(s.meta[node].pk_columns) /\ s.meta[node].auto_increment
    THEN {None}
    ELSE IF col.name \in fk_cols /\ col.name \notin DiscriminatorCols(fk_list, node)
    THEN {None}
    ELSE IF col.name \in VgColsNeedingSequential(s, fk_list, fk_cols, node)
    THEN {CounterOf(counters, << node, col.name >>)}
    ELSE IF col.name \in UniqueColsWithGlobalPools(s, node, pools)
    THEN LET pool_data == pools[<< node, col.name >>]
         IN  IF pool_data.cursor < Len(pool_data.pool)
             THEN {pool_data.pool[pool_data.cursor + 1]}
             ELSE {None}
    ELSE IF IsControlled(col) THEN col.values
    ELSE IF IsIntType(col)
         THEN IF col.name \in SingleUniqueCols(s, node) THEN {batch_idx}
              ELSE 0..MaxRandInt
    ELSE IF col.data_type = "enum"
         THEN IF col.enum_values = {} THEN {None} ELSE col.enum_values
    ELSE {None}

\* _generate_single_row: every column gets a key; no PK counter is consulted
VgRowChoices(s, node, batch_idx, fk_list, fk_cols, counters, pools) ==
    LET tmeta == s.meta[node]
        names == {c.name : c \in Range(tmeta.columns)}
        all   == UNION {VgColumnChoices(s, node, c, batch_idx, fk_list, fk_cols, counters,
                                        pools) : c \in Range(tmeta.columns)}
    IN  {r \in [names -> all] :
            \A c \in Range(tmeta.columns) :
                r[c.name] \in VgColumnChoices(s, node, c, batch_idx, fk_list, fk_cols,
                                              counters, pools)}

VgCountersAfterRow(s, node, fk_list, fk_cols, counters) ==
    LET keys == {<< node, c >> : c \in VgColsNeedingSequential(s, fk_list, fk_cols, node)}
    IN  [k \in (DOMAIN counters) \cup keys |->
            IF k \in keys THEN CounterOf(counters, k) + 1 ELSE counters[k]]

\* generate_batch(node, 0, num_rows, ...): the local trackers cover the
\* composite UNIQUE constraints only
VgBegin ==
    /\ pc = "generate"
    /\ gen = NoGen
    /\ node_idx <= Len(order)
    /\ LET node == order[node_idx]
       IN  gen' = [node |-> node, idx |-> 0, end |-> NumRows(cfg_rows[node]),
                   rows |-> << >>,
                   local_trackers |-> EmptyTrackers(CompositeUniqueConstraints(scn, node))]
    /\ UNCHANGED << aux_vars, scn, cfg_rows, pc, node_idx, metadata, fks, logical_composite_fks,
                    forced_explicit_parents, pk_next_vals, nodes, edges, indeg, q, order,
                    generated_rows, composite_unique_counters, res,
                    insert_sql_lines, delete_sql_lines, par,
                    global_unique_value_pools >>

\* generate_batch: one iteration of the batch_idx loop
VgRow ==
    /\ pc = "generate"
    /\ gen # NoGen
    /\ gen.idx < gen.end
    /\ LET node == gen.node
           fk_cols == FkColumnsOf(fks, logical_composite_fks, node)
       IN  \E row \in VgRowChoices(scn, node, gen.idx, fks, fk_cols,
                                   composite_unique_counters,
                                   global_unique_value_pools) :
              LET checked == ValidateUnique(row, CompositeUniqueConstraints(scn, node),
                                            gen.local_trackers)
              IN  /\ gen' = [gen EXCEPT
                               !.idx = @ + 1,
                               !.rows = IF checked.valid THEN Append(@, row) ELSE @,
                               !.local_trackers = checked.trackers]
                  /\ composite_unique_counters' =
                        VgCountersAfterRow(scn, node, fks, fk_cols, composite_unique_counters)
                  /\ global_unique_value_pools' =
                        PoolsAfterRow(scn, node, global_unique_value_pools)
    /\ UNCHANGED << aux_vars, scn, cfg_rows, pc, node_idx, metadata, fks, logical_composite_fks,
                    forced_explicit_parents, pk_next_vals, nodes, edges, indeg, q, order,
                    generated_rows, res, insert_sql_lines, delete_sql_lines, par >>

\* generate_batch returns the rows of the table
VgEnd ==
    /\ pc = "generate"
    /\ gen # NoGen
    /\ gen.idx = gen.end
    /\ generated_rows' = [generated_rows EXCEPT ![gen.node] = gen.rows]
    /\ gen' = NoGen
    /\ IF node_idx = Len(order)
       THEN pc' = "resolve" /\ node_idx' = 1
       ELSE pc' = pc /\ node_idx' = node_idx + 1
    /\ UNCHANGED << aux_vars, scn, cfg_rows, metadata, fks, logical_composite_fks,
                    forced_explicit_parents, pk_next_vals, nodes, edges, indeg, q, order,
                    composite_unique_counters, res,
                    insert_sql_lines, delete_sql_lines, par,
                    global_unique_value_pools >>

NextVg == Introspect \/ TopoPop \/ TopoFinish \/ VgBegin \/ VgRow \/ VgEnd

VgScenarios == {ScnAutoParent, ScnUniqueFk, ScnConditional, ScnJunction}

SpecVg == InitWith(VgScenarios, 0..MaxRows) /\ [][NextVg]_vars

\* value generation has produced the table's rows and FK resolution has not
\* touched them
ValuesGenerated(node) ==
    \/ pc = "generate" /\ \E i \in 1..(node_idx - 1) : order[i] = node
    \/ pc = "resolve" /\ res = NoRes /\ node_idx = 1

\* the values the table's PK counter has handed out
PkCounterValues(node) ==
    IF node \in DOMAIN pk_next_vals
    THEN PreparePkSequences(scn, forced_explicit_parents)[node]..(pk_next_vals[node] - 1)
    ELSE {}

\* C9: at the end of value generation the PK column of a table with an
\* auto-assigned primary key is null in every row when the table is not in
\* the explicit-PK set, and holds a value handed out by the table's PK counter
\* when it is.
C9_AutoPkNullUnlessExplicit ==
    \A node \in metadata :
        (ValuesGenerated(node) /\ scn.meta[node].auto_increment) =>
            \A row \in Range(generated_rows[node]) :
                \A pk \in Range(scn.meta[node].pk_columns) :
                    IF node \in forced_explicit_parents
                    THEN Get(row, pk) # None /\ Get(row, pk) \in PkCounterValues(node)
                    ELSE Get(row, pk) = None

---------------------------------------------------------------------------
(* Junction tables: a composite primary key made of single-column FKs *)

\* "rows" of the junction runs: the parents get 1 or 2 rows, the junction
\* table 1, 2 or 4
JunctionRowCounts == {1, 2, 4}

InitJunction ==
    /\ InitWith({ScnJunction}, JunctionRowCounts)
    /\ \A t \in {"A", "B"} : cfg_rows[t] \in {1, 2}

SpecJunction == InitJunction /\ [][Next]_vars

\* the single-column FKs of a column of the table
FksOn(node, col) ==
    {k \in DOMAIN fks : fks[k].table_name = node /\ fks[k].column_name = col}

\* the table's primary key has several columns and each of them carries one
\* unconditional single-column FK and belongs to no composite FK
PkIsSingleColumnFks(node) ==
    LET pk == scn.meta[node].pk_columns
    IN  /\ Len(pk) > 1
        /\ \A i \in DOMAIN pk :
              /\ Cardinality(FksOn(node, pk[i])) = 1
              /\ \A k \in FksOn(node, pk[i]) : ~HasCondition(fks[k])
              /\ pk[i] \notin CompositeColumnsAll(logical_composite_fks, node)

\* the Cartesian product of the parents' distinct values, in PK column order
ParentProduct(node) ==
    LET pk == scn.meta[node].pk_columns
        vals(i) == UNION {ReferencedValues(fks[k]) \ {None} : k \in FksOn(node, pk[i])}
    IN  {t \in [DOMAIN pk -> UNION {vals(i) : i \in DOMAIN pk}] :
            \A i \in DOMAIN pk : t[i] \in vals(i)}

\* C11: when the requested row count of a table whose composite primary key
\* consists of single-column FK columns equals the product of the numbers of
\* distinct parent values, the final rows' primary-key tuples are the Cartesian
\* product of the parent value sets, each tuple exactly once.
C11_PkTuplesEnumerateParentProduct ==
    \A node \in metadata :
        (/\ IsResolved(node)
         /\ PkIsSingleColumnFks(node)
         /\ NumRows(cfg_rows[node]) = Cardinality(ParentProduct(node)))
            => LET rows == generated_rows[node]
                   pk == scn.meta[node].pk_columns
               IN  /\ {TupleOf(rows[i], pk) : i \in DOMAIN rows} = ParentProduct(node)
                   /\ Len(rows) = Cardinality(ParentProduct(node))

\* a junction table of four rows has enumerated the product of two parents of
\* two rows each
C11_TwoByTwoEnumerated ==
    /\ pc = "done"
    /\ scn = ScnJunction
    /\ Len(generated_rows["A"]) = 2
    /\ Len(generated_rows["B"]) = 2
    /\ Len(generated_rows["J"]) = 4
    /\ Cardinality(ParentProduct("J")) = 4

---------------------------------------------------------------------------
(* Row count 0 *)

\* the INSERT and DELETE statements of a table in the two streams
StatementsOf(node) ==
    {i \in DOMAIN insert_sql_lines :
        insert_sql_lines[i].node = node /\ insert_sql_lines[i].op = "INSERT"}
    \cup {i \in DOMAIN delete_sql_lines :
        delete_sql_lines[i].node = node /\ delete_sql_lines[i].op = "DELETE"}

\* C12: after the run a table whose configured row count is 0 has no rows and
\* no INSERT or DELETE statement.
C12_ZeroRowsNothingEmitted ==
    pc = "done" =>
        \A node \in metadata :
            cfg_rows[node] = 0 =>
                generated_rows[node] = << >> /\ StatementsOf(node) = {}

---------------------------------------------------------------------------
(* Single-column UNIQUE columns with a configured domain *)

\* the "values" list configured for the UNIQUE column
UniqueDomain == {0, 1}

\* table U: auto-assigned PK, a column "code" with a single-column UNIQUE index
\* and the configured values UniqueDomain, and a default integer column
ScnUniquePool ==
    [name |-> "unique_pool", tables |-> << "U" >>,
     meta |-> [t \in {"U"} |->
        Table(<< IntCol("id", "NO"), WithValues(IntCol("code", "NO"), UniqueDomain),
                 IntCol("w", "NO") >>, << "id" >>, 1, 0)],
     unique_constraints |-> [t \in {"U"} |-> << UC("UQ_U_CODE", << "code" >>) >>],
     declared_fks |-> << >>, logical_fks |-> << >>, composite_fks |-> << >>,
     explicit_pk |-> {}, ignore_self_referential_fks |-> {}]

\* the same with a nullable "code"
ScnUniquePoolNullable ==
    [ScnUniquePool EXCEPT
        !.name = "unique_pool_nullable",
        !.meta = [t \in {"U"} |->
            Table(<< IntCol("id", "NO"), WithValues(IntCol("code", "YES"), UniqueDomain),
                     IntCol("w", "NO") >>, << "id" >>, 1, 0)]]

\* row counts up to one more than the domain holds
SpecPool ==
    InitWith({ScnUniquePool, ScnUniquePoolNullable}, 0..(Cardinality(UniqueDomain) + 1))
        /\ [][Next]_vars

\* C13: a table asked for more rows than the configured domain of one of its
\* single-column UNIQUE columns holds ends with as many rows as the domain has
\* values.
C13_UniqueDomainTruncatesRows ==
    pc = "done" =>
        \A node \in metadata :
            \A c \in PooledColumns(scn, node) :
                LET domain == ColumnMeta(scn.meta[node], c).values
                IN  NumRows(cfg_rows[node]) > Cardinality(domain)
                        => Len(generated_rows[node]) = Cardinality(domain)

---------------------------------------------------------------------------
(* Self-referential FKs and ignore_self_referential_fks *)

\* table E with a nullable self-referential FK parent_id -> E.id and
\* ignore_self_referential_fks: true
ScnSelfRef ==
    [name |-> "self_ref", tables |-> << "E" >>,
     meta |-> [t \in {"E"} |->
        Table(<< IntCol("id", "NO"), IntCol("parent_id", "YES"), IntCol("w", "NO") >>,
              << "id" >>, 1, 0)],
     unique_constraints |-> [t \in {"E"} |-> << >>],
     declared_fks |-> << FK("FK_E_PARENT", "E", "parent_id", "E", "id", NoCondition) >>,
     logical_fks |-> << >>, composite_fks |-> << >>,
     explicit_pk |-> {}, ignore_self_referential_fks |-> {"E"}]

\* the same with a single-column UNIQUE index on parent_id
ScnSelfRefUnique ==
    [ScnSelfRef EXCEPT
        !.name = "self_ref_unique",
        !.unique_constraints = [t \in {"E"} |-> << UC("UQ_E_PARENT", << "parent_id" >>) >>]]

SpecSelfRefRows == InitWith({ScnSelfRef, ScnSelfRefUnique}, 0..MaxRows) /\ [][Next]_vars

\* the nullable columns of the table that carry a self-referential
\* single-column FK, declared or logical
NullableSelfRefColumns(s, node) ==
    {fk.column_name : fk \in
        {f \in Range(s.declared_fks \o s.logical_fks) :
            /\ f.table_name = node
            /\ f.referenced_table_name = node
            /\ HasColumn(s.meta[node], f.column_name)
            /\ ColumnMeta(s.meta[node], f.column_name).is_nullable = "YES"}}

\* C14: every row produced for a table configured with
\* ignore_self_referential_fks: true, after value generation and after FK
\* resolution, has null in each nullable column that carries a
\* self-referential FK.
C14_IgnoredSelfRefColumnIsNull ==
    \A node \in metadata :
        (node \in scn.ignore_self_referential_fks
         /\ (ValuesGenerated(node) \/ IsResolved(node)))
            => \A row \in Range(generated_rows[node]) :
                   \A c \in NullableSelfRefColumns(scn, node) : Get(row, c) = None

\* ValueGenerator.generate_batch on the table without the UNIQUE index
SpecVgSelfRef == InitWith({ScnSelfRef}, 0..MaxRows) /\ [][NextVg]_vars

---------------------------------------------------------------------------
(* The planner's inputs with self-referential FKs *)

SelfRefTables == << "A", "B" >>

\* declared, logical single-column and logical composite FKs of A and B, to
\* themselves and from B to A
SelfRefDeclaredPool ==
    {FK("FK_A_A", "A", "a_id", "A", "id", NoCondition),
     FK("FK_B_A", "B", "a_id", "A", "id", NoCondition),
     FK("FK_B_B", "B", "b_id", "B", "id", NoCondition)}

SelfRefLogicalPool ==
    {FK("LOGICAL_A_a_id", "A", "a_id", "A", "id", NoCondition),
     FK("LOGICAL_B_b_id", "B", "b_id", "B", "id", NoCondition)}

SelfRefCompositePool ==
    {Comp("LOGICAL_A_a_id_z_id", "A", << "a_id", "z_id" >>, "A", << "id", "id" >>),
     Comp("LOGICAL_B_a_id_z_id", "B", << "a_id", "z_id" >>, "A", << "id", "id" >>)}

SelfRefScenarios ==
    {[name |-> "self_ref_graph", tables |-> SelfRefTables,
      meta |-> [t \in Range(SelfRefTables) |-> TopoTable],
      unique_constraints |-> [t \in Range(SelfRefTables) |-> << >>],
      declared_fks |-> SeqOf(declared), logical_fks |-> SeqOf(logical),
      composite_fks |-> SeqOf(composite),
      explicit_pk |-> {}, ignore_self_referential_fks |-> ignored] :
        declared \in SUBSET SelfRefDeclaredPool,
        logical \in SUBSET SelfRefLogicalPool,
        composite \in SUBSET SelfRefCompositePool,
        ignored \in SUBSET Range(SelfRefTables)}

SpecSelfRef == InitWith(SelfRefScenarios, {0}) /\ [][NextTopo]_vars

\* C15: once the planner's inputs are built, a table configured with
\* ignore_self_referential_fks: true has no edge to itself in the dependency
\* graph, and no single-column FK (declared or logical) and no composite
\* logical FK from the table to itself is left in the FK lists.
C15_IgnoredSelfRefsLeaveNoLoopAndNoFk ==
    pc # "start" =>
        \A t \in scn.ignore_self_referential_fks \cap metadata :
            /\ t \notin edges[t]
            /\ \A k \in DOMAIN fks :
                  ~(fks[k].table_name = t /\ fks[k].referenced_table_name = t)
            /\ \A k \in DOMAIN logical_composite_fks :
                  ~(/\ logical_composite_fks[k].table_name = t
                    /\ logical_composite_fks[k].referenced_table_name = t)

\* the planner has run on a configuration whose table A ignores its declared,
\* logical and composite self-references while B keeps its own
C15_SelfRefsOfAllKindsFiltered ==
    /\ pc = "generate"
    /\ scn.ignore_self_referential_fks = {"A"}
    /\ \E k \in DOMAIN scn.declared_fks : scn.declared_fks[k].constraint_name = "FK_A_A"
    /\ \E k \in DOMAIN scn.logical_fks : scn.logical_fks[k].constraint_name = "LOGICAL_A_a_id"
    /\ \E k \in DOMAIN scn.composite_fks :
          scn.composite_fks[k].constraint_name = "LOGICAL_A_a_id_z_id"
    /\ \E k \in DOMAIN fks : fks[k].constraint_name = "FK_B_B"
    /\ "B" \in edges["B"]

----------------------------------------------------------------------------
(* ConstraintResolver (constraint_resolver.py) *)

\* what a call hands back: the returned value, or the exception that left it
Returned(v) == [ok |-> TRUE, value |-> v]

Raised(e) == [ok |-> FALSE, error |-> e]

\* a combination count: None, float('inf') or an integer
NoCombos == [kind |-> "none", n |-> 0]

Infinite == [kind |-> "inf", n |-> 0]

Finite(n) == [kind |-> "int", n |-> n]

\* a < b of two combination counts, as the sort key compares them
ComboLess(a, b) == a.kind = "int" /\ (b.kind = "inf" \/ a.n < b.n)

\* col_config.get("max", 100)
DefaultRangeMax == 100

\* _select_diverse_combinations tries its smart selection for 2..10 rows
MaxDiverseRows == 10

\* the inner loop of select_tightest_constraint over uc.columns, from column i
RECURSIVE combo_count(_, _, _, _, _, _)
combo_count(columns, i, acc, fk_map, populate_config, rows_of) ==
    IF i > Len(columns) THEN Finite(acc)
    ELSE LET col_name == columns[i]
         IN  IF col_name \in DOMAIN fk_map
             THEN LET fk == fk_map[col_name]
                      parent_node == fk.referenced_table_name
                  IN  IF parent_node \in DOMAIN rows_of
                      THEN LET parent_vals ==
                                   {Get(r, fk.referenced_column_name) :
                                        r \in Range(rows_of[parent_node])} \ {None}
                           IN  combo_count(columns, i + 1, acc * Cardinality(parent_vals),
                                           fk_map, populate_config, rows_of)
                      ELSE Infinite
             ELSE LET col_config == IF col_name \in DOMAIN populate_config
                                    THEN populate_config[col_name] ELSE << >>
                  IN  IF "values" \in DOMAIN col_config
                      THEN combo_count(columns, i + 1, acc * Len(col_config["values"]),
                                       fk_map, populate_config, rows_of)
                      ELSE IF "min" \in DOMAIN col_config
                      THEN LET min_val == col_config["min"]
                               max_val == IF "max" \in DOMAIN col_config
                                          THEN col_config["max"] ELSE DefaultRangeMax
                           IN  combo_count(columns, i + 1, acc * (max_val - min_val + 1),
                                           fk_map, populate_config, rows_of)
                      ELSE Infinite

\* the position of the last of the smallest counts
LastSmallest(counts) ==
    CHOOSE i \in DOMAIN counts :
        /\ \A j \in DOMAIN counts : ~ComboLess(counts[j], counts[i])
        /\ \A j \in (i + 1)..Len(counts) : ComboLess(counts[i], counts[j])

\* constraint_combos.sort(key=lambda x: x[1]); constraint_combos[0]: the sort is
\* stable, so the head is the earliest of the smallest counts
SortedFirst(counts) ==
    CHOOSE i \in DOMAIN counts :
        /\ \A j \in DOMAIN counts : ~ComboLess(counts[j], counts[i])
        /\ \A j \in 1..(i - 1) : ComboLess(counts[i], counts[j])

\* ConstraintResolver.select_tightest_constraint: (selected_constraint,
\* estimated_combinations).  The sort is stable, so constraint_combos[0] is the
\* earliest constraint of the smallest count; of an empty list it raises.
select_tightest_constraint(composite_constraints, fk_map, populate_config, rows_of) ==
    IF Len(composite_constraints) = 1
    THEN Returned([selected |-> composite_constraints[1], min_combos |-> NoCombos])
    ELSE LET counts == [i \in DOMAIN composite_constraints |->
                           combo_count(composite_constraints[i].columns, 1, 1,
                                       fk_map, populate_config, rows_of)]
         IN  IF composite_constraints = << >> THEN Raised("IndexError")
             ELSE LET first == SortedFirst(counts)
                  IN  Returned([selected |-> composite_constraints[first],
                                min_combos |-> counts[first]])

\* rng.shuffle of a list
Shuffles(s) == {[i \in DOMAIN s |-> s[p[i]]] : p \in Perms(DOMAIN s)}

\* the candidate the smart selection takes of one first-column group: the first
\* one without a conflict, or the first one
BestCandidate(candidates, rest_cols, used_values) ==
    LET conflicts(c) == Cardinality({k \in DOMAIN rest_cols :
                                        c[rest_cols[k]] \in used_values[rest_cols[k]]})
        free == {k \in DOMAIN candidates : conflicts(candidates[k]) = 0}
    IN  IF free = {} THEN candidates[1]
        ELSE candidates[CHOOSE k \in free : \A l \in free : k <= l]

\* the loop of the smart selection over first_col_values[:num_needed]
RECURSIVE SmartSelected(_, _, _, _, _)
SmartSelected(available, constraint_cols, first_vals, used_values, selected) ==
    IF first_vals = << >> THEN selected
    ELSE LET first_col == constraint_cols[1]
             InGroup(c) == c[first_col] = Head(first_vals)
             best == BestCandidate(SelectSeq(available, InGroup), Tail(constraint_cols),
                                   used_values)
             used == [col \in DOMAIN used_values |->
                         IF col \in Range(constraint_cols)
                         THEN used_values[col] \cup {best[col]} ELSE used_values[col]]
         IN  SmartSelected(available, constraint_cols, Tail(first_vals), used,
                           Append(selected, best))

\* ConstraintResolver._select_diverse_combinations: every list it can return
select_diverse_combinations(available, constraint_cols, num_needed) ==
    LET random_selection == {Prefix(a, num_needed) : a \in Shuffles(available)}
    IN  IF num_needed <= 1 \/ num_needed > MaxDiverseRows \/ constraint_cols = << >>
        THEN random_selection
        ELSE LET first_col_values == DistinctInOrder([k \in DOMAIN available |->
                                                         available[k][constraint_cols[1]]])
             IN  IF Len(first_col_values) >= num_needed
                 THEN {SmartSelected(available, constraint_cols, Prefix(f, num_needed),
                                     [col \in Range(constraint_cols) |-> {}], << >>) :
                          f \in Shuffles(first_col_values)}
                 ELSE random_selection

\* the loop of stratified_sample over the shuffled shared values, from the
\* 0-based position idx: every list selected_combinations can end as
RECURSIVE SelectedCombinations(_, _, _, _, _, _, _)
SelectedCombinations(combinations, primary_shared_col, shared_values_list, idx, rows_per_shared_val, remainder, constraint_non_shared_cols) ==
    IF idx >= Len(shared_values_list) THEN {<< >>}
    ELSE LET HasSharedVal(c) == c[primary_shared_col] = shared_values_list[idx + 1]
             available == SelectSeq(combinations, HasSharedVal)
             num_rows_for_this_val == rows_per_shared_val + (IF idx < remainder THEN 1 ELSE 0)
             later == SelectedCombinations(combinations, primary_shared_col,
                                           shared_values_list, idx + 1, rows_per_shared_val,
                                           remainder, constraint_non_shared_cols)
         IN  IF available = << >> THEN later
             ELSE {selected \o rest :
                      selected \in select_diverse_combinations(
                                      available, constraint_non_shared_cols,
                                      num_rows_for_this_val),
                      rest \in later}

\* ConstraintResolver.stratified_sample: every outcome of a call.  The rows per
\* shared value are target_size // len(shared_values).
stratified_sample(combinations, primary_shared_col, shared_values, constraint_non_shared_cols, target_size) ==
    IF Len(shared_values) = 0 THEN {Raised("ZeroDivisionError")}
    ELSE LET rows_per_shared_val == target_size \div Len(shared_values)
             remainder == target_size % Len(shared_values)
         IN  {Returned(final) :
                 final \in UNION {Shuffles(sel) :
                     sel \in UNION {SelectedCombinations(
                                        combinations, primary_shared_col, svl, 0,
                                        rows_per_shared_val, remainder,
                                        constraint_non_shared_cols) :
                                    svl \in Shuffles(shared_values)}}}

\* --- the calls --------------------------------------------------------------

\* most constraints, combinations and rows handed to a resolver operation
MaxConstraints == 2

MaxCombinations == 3

MaxTargetSize == 3

\* lists without repetition of at most n members of S
ListsUpTo(S, n) == UNION {{s \in [1..k -> S] : \A i, j \in 1..k : s[i] = s[j] => i = j} :
                             k \in 0..n}

ResolverConstraints == {UC("UQ_AB", << "a", "b" >>), UC("UQ_BC", << "b", "c" >>),
                        UC("UQ_AC", << "a", "c" >>)}

\* column a is no FK, or an FK to P.id
ResolverFkMaps == {<< >>, [c \in {"a"} |-> FK("FK_A", "T", "a", "P", "id", NoCondition)]}

\* P is not generated, or has rows (none, one, two, one of them without id)
ResolverParentRows ==
    {<< >>} \cup
    {[p \in {"P"} |-> rows] :
        rows \in {<< >>, << [id |-> 0] >>, << [id |-> 0], [id |-> 1] >>,
                  << [id |-> 0], [id |-> None] >>}}

ResolverColumnConfigs ==
    {<< >>, [values |-> << >>], [values |-> << 0, 1 >>], [min |-> 0, max |-> 1], [min |-> 0]}

ResolverPopulateConfigs ==
    {[c \in cols |-> cfgs[c]] :
        cols \in SUBSET {"b", "c"},
        cfgs \in [{"b", "c"} -> ResolverColumnConfigs \ {<< >>}]}

\* the combinations of a shared column s and the columns n, m
ResolverCombos == [s : {0, 1}, n : {0, 1}, m : {0, 1}]

ResolverSharedValues == {<< >>, << 0 >>, << 1 >>, << 0, 1 >>}

ResolverNonSharedCols == {<< >>, << "n" >>, << "n", "m" >>}

\* a call is made by a caller that holds no result of an earlier call
CallSelectTightestConstraint ==
    /\ resolver = NoResolver
    /\ \E composite_constraints \in ListsUpTo(ResolverConstraints, MaxConstraints),
          fk_map \in ResolverFkMaps,
          populate_config \in ResolverPopulateConfigs,
          rows_of \in ResolverParentRows :
            resolver' = [op |-> "select_tightest_constraint",
                         composite_constraints |-> composite_constraints,
                         fk_map |-> fk_map,
                         populate_config |-> populate_config,
                         generated_rows |-> rows_of,
                         result |-> select_tightest_constraint(
                                        composite_constraints, fk_map,
                                        populate_config, rows_of)]
    /\ UNCHANGED << pipeline_vars, strings, seq, pkseq, upool, chunking >>

CallStratifiedSample ==
    /\ resolver = NoResolver
    /\ \E combinations \in ListsUpTo(ResolverCombos, MaxCombinations),
          shared_values \in ResolverSharedValues,
          constraint_non_shared_cols \in ResolverNonSharedCols,
          target_size \in 0..MaxTargetSize :
        \E result \in stratified_sample(combinations, "s", shared_values,
                                        constraint_non_shared_cols, target_size) :
            resolver' = [op |-> "stratified_sample",
                         combinations |-> combinations,
                         shared_values |-> shared_values,
                         constraint_non_shared_cols |-> constraint_non_shared_cols,
                         target_size |-> target_size,
                         result |-> result]
    /\ UNCHANGED << pipeline_vars, strings, seq, pkseq, upool, chunking >>

\* the caller has used the result; the resolver keeps no state between calls
ResolverResultUsed ==
    /\ resolver # NoResolver
    /\ resolver.result.ok
    /\ resolver' = NoResolver
    /\ UNCHANGED << pipeline_vars, strings, seq, pkseq, upool, chunking >>

NextResolver == CallSelectTightestConstraint \/ CallStratifiedSample \/ ResolverResultUsed

InitResolver ==
    /\ InitPipeline({ScnAutoParent}, {0})
    /\ upool = NoPool
    /\ chunking = NoChunking
    /\ resolver = NoResolver
    /\ strings = NoStrings
    /\ seq = NoSeq
    /\ pkseq = NoPkSeq

SpecResolver == InitResolver /\ [][NextResolver]_vars

\* C16: constraint resolution never terminates the run with an error: whatever
\* the composite unique constraints, the configured domains and the parent
\* data, empty value pools and empty sets of shared values included, each
\* resolver operation returns a result.
C16_ResolverOperationsReturn == resolver.op # "none" => resolver.result.ok

----------------------------------------------------------------------------
(* String values of generate_batch_fast.  A string is the sequence of its      *)
(* characters; a column without a maximum length has char_max_length 0.        *)

\* "seq_{0:08d}": the digits of a sequential value are padded to this width
SeqDigits == 8

\* rand_string(thread_rng, min(maxlen, 24)), and the length taken for a string
\* column that has no char_max_length
DefaultStringLen == 24

\* int(col.char_max_length) if col.char_max_length else 255
DefaultCharMaxLength == 255

Chars(n, c) == [i \in 1..n |-> c]

DigitChars == << "0", "1", "2", "3", "4", "5", "6", "7", "8", "9" >>

\* str(n) of a natural number
RECURSIVE Str(_)
Str(n) == IF n < 10 THEN << DigitChars[n + 1] >>
          ELSE Append(Str(n \div 10), DigitChars[(n % 10) + 1])

\* "{0:08d}".format(n)
ZeroPadded(n, width) ==
    LET d == Str(n) IN IF Len(d) >= width THEN d ELSE Chars(width - Len(d), "0") \o d

\* s[a:b] for 0 <= a
Slice(s, a, b) == SubSeq(s, a + 1, Min(b, Len(s)))

\* "seq_{0:08d}".format(counter_val)
SeqValue(counter_val) == << "s", "e", "q", "_" >> \o ZeroPadded(counter_val, SeqDigits)

\* "_{0}".format(batch_idx)
Suffix(batch_idx) == << "_" >> \o Str(batch_idx)

\* word in cname.lower(), for the column names of the model
NameContains(cname, word) ==
    << cname, word >> \in {<< "email", "email" >>, << "full_name", "name" >>,
                           << "phone", "phone" >>}

\* the value generators that the string branch calls
rand_string(n) == {Chars(n, "x")}

rand_phone == {<< d, d, d, "-", d, d, d, "-", d, d, d, d >> : d \in {"0", "9"}}

rand_email == {<< "a", "@", "b", ".", "c" >>,
               << "a", "n", "n", "@", "m", "a", "i", "l", ".", "c", "o", "m" >>}

rand_name == {<< "A", "l", " ", "B", "o" >>,
              << "A", "n", "n", "a", " ", "L", "e", "e" >>}

\* generate_value_with_config for a "values" list: one of the values
generate_value_with_config(col_config) == col_config.values

MaxLenOf(col) == IF col.char_max_length # 0 THEN col.char_max_length ELSE DefaultCharMaxLength

\* the single-column UNIQUE suffixing of a base value
Suffixed(col, base_str, batch_idx) ==
    LET maxlen == MaxLenOf(col)
        suffix == Suffix(batch_idx)
        max_base_len == maxlen - Len(suffix)
    IN  IF max_base_len < 1 THEN Slice(suffix, 1, maxlen)
        ELSE Slice(Slice(base_str, 0, max_base_len) \o suffix, 0, maxlen)

\* PRIORITY 0 for a string column: the sequential value cut to the column
SequentialString(col, counter_val) == Slice(SeqValue(counter_val), 0, MaxLenOf(col))

\* PRIORITY 2 for a string column with a "values" list
ConfiguredStrings(col, col_config, single_unique, batch_idx) ==
    {IF single_unique THEN Suffixed(col, base_value, batch_idx) ELSE base_value :
        base_value \in generate_value_with_config(col_config)}

\* the default rule of a string column
DefaultStrings(col, single_unique, batch_idx) ==
    LET base_values ==
            IF NameContains(col.name, "email") THEN rand_email
            ELSE IF NameContains(col.name, "name") THEN rand_name
            ELSE IF NameContains(col.name, "phone") THEN rand_phone
            ELSE LET maxlen == IF col.char_max_length # 0 THEN col.char_max_length
                               ELSE DefaultStringLen
                 IN  rand_string(Min(maxlen, DefaultStringLen))
    IN  {IF single_unique THEN Suffixed(col, base_value, batch_idx) ELSE base_value :
            base_value \in base_values}

\* --- the calls --------------------------------------------------------------

\* largest batch_idx and largest sequential counter value of the model
MaxBatchIdx == 10

MaxCounterVal == 1

StringColumnNames == {"email", "full_name", "phone", "code"}

CharMaxLengths == {0, 1, 2, 5, 12, 30}

StringColumns == [name : StringColumnNames, data_type : {"varchar"},
                  char_max_length : CharMaxLengths]

\* the "values" lists of the configurations: short values and a long one
StringConfigs == {[values |-> {Chars(1, "v"), Chars(2, "w")}],
                  [values |-> {Chars(2, "w"), Chars(6, "v")}]}

StringBatchIdxs == {0, MaxBatchIdx}

\* a column that needs sequential generation takes PRIORITY 0
GenerateSequentialString ==
    /\ strings = NoStrings
    /\ \E col \in StringColumns, counter_val \in 0..MaxCounterVal :
           strings' = [op |-> "sequential", col |-> col, single_unique |-> FALSE,
                       batch_idx |-> 0, counter_val |-> counter_val,
                       value |-> SequentialString(col, counter_val)]
    /\ UNCHANGED << pipeline_vars, resolver, seq, pkseq, upool, chunking >>

\* a column with a "values" list and no global pool takes PRIORITY 2
GenerateConfiguredString ==
    /\ strings = NoStrings
    /\ \E col \in StringColumns, col_config \in StringConfigs,
          single_unique \in BOOLEAN, batch_idx \in StringBatchIdxs :
        \E value \in ConfiguredStrings(col, col_config, single_unique, batch_idx) :
           strings' = [op |-> "configured", col |-> col, single_unique |-> single_unique,
                       batch_idx |-> batch_idx, counter_val |-> 0, value |-> value]
    /\ UNCHANGED << pipeline_vars, resolver, seq, pkseq, upool, chunking >>

\* every other string column takes the default rule
GenerateDefaultString ==
    /\ strings = NoStrings
    /\ \E col \in StringColumns, single_unique \in BOOLEAN, batch_idx \in StringBatchIdxs :
        \E value \in DefaultStrings(col, single_unique, batch_idx) :
           strings' = [op |-> "default", col |-> col, single_unique |-> single_unique,
                       batch_idx |-> batch_idx, counter_val |-> 0, value |-> value]
    /\ UNCHANGED << pipeline_vars, resolver, seq, pkseq, upool, chunking >>

\* the row is appended and the loop goes to the next row
StringRowDone ==
    /\ strings # NoStrings
    /\ strings' = NoStrings
    /\ UNCHANGED << pipeline_vars, resolver, seq, pkseq, upool, chunking >>

NextStrings ==
    \/ GenerateSequentialString
    \/ GenerateConfiguredString
    \/ GenerateDefaultString
    \/ StringRowDone

InitStrings ==
    /\ InitPipeline({ScnAutoParent}, {0})
    /\ upool = NoPool
    /\ chunking = NoChunking
    /\ resolver = NoResolver
    /\ strings = NoStrings
    /\ seq = NoSeq
    /\ pkseq = NoPkSeq

SpecStrings == InitStrings /\ [][NextStrings]_vars

\* C17: every string value of a produced row is at most as long as its
\* column's maximum character length, on every generation path (name-based
\* defaults, single-column UNIQUE suffixing, sequential seq_ values, configured
\* values).
C17_StringWithinMaxLength ==
    (strings # NoStrings /\ strings.col.char_max_length # 0)
        => Len(strings.value) <= strings.col.char_max_length

----------------------------------------------------------------------------
(* Explicit-PK detection over a family of schemas: parents P and Q, child C  *)
(* (all configured) and the table Z that is not configured                   *)

ExplicitTables == << "P", "Q", "C" >>

ExplicitParentTable ==
    Table(<< IntCol("id", "NO"), IntCol("v", "NO"), IntCol("w", "NO") >>, << "id" >>, 1, 0)

\* the child; its FK columns p_id and q_id are NOT NULL or nullable
ExplicitChildTable(p_nullable, q_nullable) ==
    Table(<< IntCol("id", "NO"), IntCol("p_id", p_nullable), IntCol("q_id", q_nullable),
             IntCol("z_id", "NO"), IntCol("self_id", "NO") >>, << "id" >>, 1, 0)

\* FKs of the child to P, to Q (one of them on the column that also refers to
\* P), to Z and to itself
ExplicitFkPool ==
    {FK("FK_C_P", "C", "p_id", "P", "id", NoCondition),
     FK("FK_C_Q", "C", "q_id", "Q", "id", NoCondition),
     FK("FK_C_PQ", "C", "p_id", "Q", "id", NoCondition),
     FK("FK_C_Z", "C", "z_id", "Z", "id", NoCondition),
     FK("FK_C_SELF", "C", "self_id", "C", "id", NoCondition)}

\* composite logical FKs: to P with a primary-key column among the referenced
\* columns, to Q without one, to Z
ExplicitCompositePool ==
    {Comp("CFK_C_P", "C", << "p_id", "q_id" >>, "P", << "id", "v" >>),
     Comp("CFK_C_Q", "C", << "p_id", "q_id" >>, "Q", << "v", "w" >>),
     Comp("CFK_C_Z", "C", << "p_id", "z_id" >>, "Z", << "id", "v" >>)}

ExplicitScenarios ==
    {[name |-> "explicit_pk", tables |-> ExplicitTables,
      meta |-> [t \in Range(ExplicitTables) |->
                   IF t = "C" THEN ExplicitChildTable(p_nullable, q_nullable)
                   ELSE ExplicitParentTable],
      unique_constraints |-> [t \in Range(ExplicitTables) |-> << >>],
      declared_fks |-> SeqOf(declared), logical_fks |-> << >>,
      composite_fks |-> SeqOf(composite),
      explicit_pk |-> explicit, ignore_self_referential_fks |-> {}] :
        p_nullable \in {"NO", "YES"}, q_nullable \in {"NO", "YES"},
        declared \in SUBSET ExplicitFkPool,
        composite \in SUBSET ExplicitCompositePool,
        explicit \in SUBSET Range(ExplicitTables)}

SpecExplicit == InitWith(ExplicitScenarios, {0}) /\ [][NextTopo]_vars

\* the configured parents that the NOT NULL foreign keys of a child refer to
NotNullConfiguredParents(child) ==
    {fk.referenced_table_name :
        fk \in {f \in Range(fks) :
                  /\ f.table_name = child
                  /\ f.referenced_table_name \in ConfigTables(scn)
                  /\ \E c \in Range(scn.meta[child].columns) :
                        c.name = f.column_name /\ c.is_nullable = "NO"}}

\* (a) some configured child has NOT NULL FKs to two or more distinct
\* configured parents, the table among them
ParentOfMultiParentChild(t) ==
    \E child \in ConfigTables(scn) :
        /\ Cardinality(NotNullConfiguredParents(child)) >= 2
        /\ t \in NotNullConfiguredParents(child)

\* (b) a composite logical FK references a column of the table's primary key
CompositeFkReferencesPk(t) ==
    \E comp \in Range(logical_composite_fks) :
        /\ comp.referenced_table_name = t
        /\ \E k \in DOMAIN comp.referenced_columns :
               comp.referenced_columns[k] \in Range(scn.meta[t].pk_columns)

\* (c) the table's configuration entry has explicit_pk: true
ConfiguredExplicitPk(t) == t \in scn.explicit_pk

\* C18: a configured table is in the explicit-PK set exactly when (a) some
\* configured child has NOT NULL foreign keys to two or more distinct
\* configured parents and the table is one of them, or (b) a composite logical
\* FK references a column of the table's primary key, or (c) its configuration
\* entry has explicit_pk: true.
C18_ExplicitPkSetIsTheThreeRules ==
    pc # "start" =>
        \A t \in ConfigTables(scn) :
            t \in forced_explicit_parents
                <=> (\/ ParentOfMultiParentChild(t)
                     \/ CompositeFkReferencesPk(t)
                     \/ ConfiguredExplicitPk(t))

\* a run in which P is marked by rule (b) alone, Q by rule (a) alone (with the
\* child itself, through its NOT NULL self-reference) and no entry has
\* explicit_pk
C18_RulesMarkDifferentTables ==
    /\ pc # "start"
    /\ scn.name = "explicit_pk"
    /\ scn.explicit_pk = {}
    /\ forced_explicit_parents = {"P", "Q", "C"}
    /\ CompositeFkReferencesPk("P") /\ ~ParentOfMultiParentChild("P")
    /\ ParentOfMultiParentChild("Q") /\ ~CompositeFkReferencesPk("Q")
    /\ ParentOfMultiParentChild("C") /\ ~CompositeFkReferencesPk("C")

----------------------------------------------------------------------------
(* The PK sequence counter in the worker threads of generate_parallel: the   *)
(* steps of generate_batch_fast that take a row's primary key                *)

\* rows of a worker thread's chunk
PkChunkRows == 3

\* table Q with rows in the database: the catalog's next auto value is 3 and
\* the largest primary key is 4
ScnParallelSeeded ==
    [ScnParallel EXCEPT
        !.name = "parallel_seeded",
        !.meta = [t \in {"Q"} |->
            Table(<< IntCol("id", "NO"), IntCol("u", "NO") >>, << "id" >>, 3, 4)],
        !.explicit_pk = {"Q"}]

\* the start values that prepare_pk_sequences gives the counter of Q
PreparedStarts ==
    {PreparePkSequences(s, DetectForcedExplicitParents(s, FilteredFks(s),
                                                       LoadLogicalComposite(s)))["Q"] :
        s \in {ScnParallel, ScnParallelSeeded}}

\* the lock is taken whether or not a thread holds it
LockIgnored(lock) == TRUE

\* threading.Lock: a thread enters the with block once no thread holds the lock
LockFree(lock) == lock = 0

\* every worker thread runs generate_batch_fast on a chunk of PkChunkRows rows
InitPkSeq ==
    /\ InitPipeline({ScnParallel}, {ParallelMinRows})
    /\ upool = NoPool
    /\ chunking = NoChunking
    /\ resolver = NoResolver
    /\ strings = NoStrings
    /\ seq = NoSeq
    /\ \E start \in PreparedStarts :
          pkseq = [op |-> "run", start |-> start, pk_next_vals |-> start,
                   pk_counter_lock |-> 0,
                   threads |-> [w \in Workers |->
                                   [pc |-> "lock", batch_idx |-> (w - 1) * PkChunkRows,
                                    end_idx |-> w * PkChunkRows, row_pk |-> None,
                                    rows |-> << >>]]]

\* with self.pk_counter_lock:
PkAcquire(w) ==
    /\ pkseq.threads[w].pc = "lock"
    /\ LockFree(pkseq.pk_counter_lock)
    /\ pkseq' = [pkseq EXCEPT !.pk_counter_lock = w, !.threads[w].pc = "assign"]
    /\ UNCHANGED << pipeline_vars, resolver, strings, seq, upool, chunking >>

\* row[pk] = self.pk_next_vals[table_key]
PkAssign(w) ==
    /\ pkseq.threads[w].pc = "assign"
    /\ pkseq' = [pkseq EXCEPT !.threads[w].row_pk = pkseq.pk_next_vals,
                              !.threads[w].pc = "increment"]
    /\ UNCHANGED << pipeline_vars, resolver, strings, seq, upool, chunking >>

\* self.pk_next_vals[table_key] += 1
PkIncrement(w) ==
    /\ pkseq.threads[w].pc = "increment"
    /\ pkseq' = [pkseq EXCEPT !.pk_next_vals = @ + 1, !.threads[w].pc = "release"]
    /\ UNCHANGED << pipeline_vars, resolver, strings, seq, upool, chunking >>

\* the with block ends; the row is appended and the loop goes to the next
\* batch_idx
PkRelease(w) ==
    /\ pkseq.threads[w].pc = "release"
    /\ LET t == pkseq.threads[w]
       IN  pkseq' = [pkseq EXCEPT
                        !.pk_counter_lock = 0,
                        !.threads[w] =
                            [t EXCEPT !.rows = Append(@, t.row_pk),
                                      !.row_pk = None,
                                      !.batch_idx = @ + 1,
                                      !.pc = IF t.batch_idx + 1 < t.end_idx
                                             THEN "lock" ELSE "done"]]
    /\ UNCHANGED << pipeline_vars, resolver, strings, seq, upool, chunking >>

NextPkSeq ==
    \E w \in Workers : PkAcquire(w) \/ PkAssign(w) \/ PkIncrement(w) \/ PkRelease(w)

SpecPkSeq == InitPkSeq /\ [][NextPkSeq]_vars

\* the rows that hold a value of the counter: the appended rows of each
\* thread, and the row a thread is building
RowsWithPk ==
    UNION {{<< w, i >> : i \in DOMAIN pkseq.threads[w].rows} : w \in Workers}
    \cup {<< w, 0 >> : w \in {v \in Workers : pkseq.threads[v].row_pk # None}}

PkOfRow(p) ==
    IF p[2] = 0 THEN pkseq.threads[p[1]].row_pk ELSE pkseq.threads[p[1]].rows[p[2]]

PkValuesHandedOut == {PkOfRow(p) : p \in RowsWithPk}

----------------------------------------------------------------------------
(* The per-column sequential counter in worker threads.  ValueGenerator     *)
(* keeps a ThreadLocalCounter per column; generate_batch_fast of            *)
(* FastSyntheticGenerator keeps a plain integer per column.                 *)

\* ThreadLocalCounter(batch_size=100): the values reserved per lock
\* acquisition (100 in the code)
counter_batch_size == 2

\* calls of the counter by one worker thread
MaxNextCalls == 3

Generators == {"ValueGenerator", "FastSyntheticGenerator"}

\* thread-local state of a thread that has not called next()
NoLocal == [batch_start |-> None, batch_end |-> None, current |-> None]

\* the global counter is left where it was
GlobalCounterKept(global_counter, size) == global_counter

\* self.global_counter += self.batch_size
GlobalCounterAfterBatch(global_counter, size) == global_counter + size

\* the worker threads are about to ask for the sequential value of one column;
\* no counter exists for the column yet
InitSeq ==
    /\ InitPipeline({ScnAutoParent}, {0})
    /\ upool = NoPool
    /\ chunking = NoChunking
    /\ resolver = NoResolver
    /\ strings = NoStrings
    /\ pkseq = NoPkSeq
    /\ \E generator \in Generators :
          seq = [op |-> "run", generator |-> generator,
                 composite_unique_counter_lock |-> 0,
                 has_counter |-> FALSE,
                 plain_counter |-> 0,
                 global_counter |-> 0,
                 lock |-> 0,
                 local |-> [w \in Workers |-> NoLocal],
                 reserved |-> [w \in Workers |-> {}],
                 threads |-> [w \in Workers |->
                                 [pc |-> "call", calls |-> 0, taken |-> << >>]]]

SeqStep(w, from) == seq # NoSeq /\ seq.threads[w].pc = from

\* --- ValueGenerator._handle_sequential_generation ---------------------------

\* with self.composite_unique_counter_lock: the ThreadLocalCounter of the
\* column is created if it is missing.  Then ThreadLocalCounter.next starts: a
\* thread without local state allocates first.
VgCallNext(w) ==
    /\ SeqStep(w, "call")
    /\ seq.generator = "ValueGenerator"
    /\ seq.threads[w].calls < MaxNextCalls
    /\ LockFree(seq.composite_unique_counter_lock)
    /\ seq' = [seq EXCEPT !.has_counter = TRUE,
                          !.threads[w].pc =
                              IF seq.local[w].batch_start = None
                              THEN "allocate_first" ELSE "use"]
    /\ UNCHANGED << pipeline_vars, resolver, strings, pkseq, upool, chunking >>

\* _allocate_batch: with self.lock
TlcAcquire(w) ==
    /\ seq # NoSeq
    /\ seq.threads[w].pc \in {"allocate_first", "allocate_again"}
    /\ LockFree(seq.lock)
    /\ seq' = [seq EXCEPT !.lock = w,
                          !.threads[w].pc = IF seq.threads[w].pc = "allocate_first"
                                            THEN "batch_first" ELSE "batch_again"]
    /\ UNCHANGED << pipeline_vars, resolver, strings, pkseq, upool, chunking >>

\* _allocate_batch: the body of the with block, and the end of the block
TlcAllocateBatch(w) ==
    /\ seq # NoSeq
    /\ seq.threads[w].pc \in {"batch_first", "batch_again"}
    /\ seq' = [seq EXCEPT
                  !.local[w] = [batch_start |-> seq.global_counter,
                                batch_end |-> seq.global_counter + counter_batch_size,
                                current |-> seq.global_counter],
                  !.reserved[w] = @ \cup {seq.global_counter},
                  !.global_counter = GlobalCounterAfterBatch(@, counter_batch_size),
                  !.lock = 0,
                  !.threads[w].pc = IF seq.threads[w].pc = "batch_first"
                                    THEN "use" ELSE "call"]
    /\ UNCHANGED << pipeline_vars, resolver, strings, pkseq, upool, chunking >>

\* next: value = self.local.current; self.local.current += 1; a new batch is
\* allocated when the current one is used up, and value is returned
TlcUse(w) ==
    /\ SeqStep(w, "use")
    /\ seq' = [seq EXCEPT
                  !.threads[w].taken = Append(@, seq.local[w].current),
                  !.threads[w].calls = @ + 1,
                  !.local[w].current = @ + 1,
                  !.threads[w].pc = IF seq.local[w].current + 1 >= seq.local[w].batch_end
                                    THEN "allocate_again" ELSE "call"]
    /\ UNCHANGED << pipeline_vars, resolver, strings, pkseq, upool, chunking >>

\* --- FastSyntheticGenerator.generate_batch_fast -------------------------------

\* with self.composite_unique_counter_lock:
PlainAcquire(w) ==
    /\ SeqStep(w, "call")
    /\ seq.generator = "FastSyntheticGenerator"
    /\ seq.threads[w].calls < MaxNextCalls
    /\ LockFree(seq.composite_unique_counter_lock)
    /\ seq' = [seq EXCEPT !.composite_unique_counter_lock = w,
                          !.threads[w].pc = "take"]
    /\ UNCHANGED << pipeline_vars, resolver, strings, pkseq, upool, chunking >>

\* the counter is created at 0 if it is missing; counter_val is its value and
\* the counter is advanced; the with block ends and counter_val goes into the row
PlainTake(w) ==
    /\ SeqStep(w, "take")
    /\ LET counter_val == IF seq.has_counter THEN seq.plain_counter ELSE 0
       IN  seq' = [seq EXCEPT !.has_counter = TRUE,
                              !.plain_counter = counter_val + 1,
                              !.threads[w].taken = Append(@, counter_val),
                              !.threads[w].calls = @ + 1,
                              !.composite_unique_counter_lock = 0,
                              !.threads[w].pc = "call"]
    /\ UNCHANGED << pipeline_vars, resolver, strings, pkseq, upool, chunking >>

NextSeq ==
    \E w \in Workers :
        \/ VgCallNext(w)
        \/ TlcAcquire(w)
        \/ TlcAllocateBatch(w)
        \/ TlcUse(w)
        \/ PlainAcquire(w)
        \/ PlainTake(w)

SpecSeq == InitSeq /\ [][NextSeq]_vars

\* the calls that have taken their value, and the values
ReturnedCalls ==
    UNION {{<< w, i >> : i \in DOMAIN seq.threads[w].taken} : w \in Workers}

ReturnedValue(c) == seq.threads[c[1]].taken[c[2]]

\* the value lies in a window that the thread reserved under the mutex
InOwnWindow(w, v) ==
    \E start \in seq.reserved[w] : start <= v /\ v < start + counter_batch_size

\* the windows of different reservations share no value
WindowsDisjoint ==
    \A w1, w2 \in Workers : \A s1 \in seq.reserved[w1], s2 \in seq.reserved[w2] :
        (w1 # w2 \/ s1 # s2) => (s1 + counter_batch_size <= s2 \/ s2 + counter_batch_size <= s1)

NoValueReturnedTwice ==
    \A c1, c2 \in ReturnedCalls : c1 # c2 => ReturnedValue(c1) # ReturnedValue(c2)

MaxPoolSize == 2

\* chunks of the table and rows of one chunk
PoolChunks == 2

PoolChunkRows == 2

\* pool_data['cursor'] stays as it was
CursorKept(pool_data) == pool_data.cursor

\* pool_data['cursor'] += 1
CursorAfterTake(pool_data) == pool_data.cursor + 1

\* initialize_global_unique_pools: the pool holds distinct values in a shuffled
\* order, the cursor is at 0 and size is len(pool); the executor has the
\* table's chunks pending
InitPool ==
    /\ InitPipeline({ScnAutoParent}, {0})
    /\ resolver = NoResolver
    /\ strings = NoStrings
    /\ seq = NoSeq
    /\ pkseq = NoPkSeq
    /\ chunking = NoChunking
    /\ \E size \in 0..MaxPoolSize :
          \E pool \in Perms(1..size) :
             upool = [op |-> "run",
                      pool_data |-> [pool |-> pool, cursor |-> 0, size |-> size],
                      global_unique_pool_lock |-> 0,
                      pending |-> PoolChunks,
                      threads |-> [w \in Workers |->
                                      [pc |-> "idle", left |-> 0, cursor |-> None,
                                       value |-> None, rows |-> << >>]]]

\* executor.submit(self.generate_batch_fast, ...): a free worker starts the
\* next chunk
PoolStartChunk(w) ==
    /\ upool # NoPool
    /\ upool.threads[w].pc = "idle"
    /\ upool.pending > 0
    /\ upool' = [upool EXCEPT !.pending = @ - 1,
                              !.threads[w].left = PoolChunkRows,
                              !.threads[w].pc = "lock"]
    /\ UNCHANGED << pipeline_vars, resolver, strings, seq, pkseq, chunking >>

\* with self.global_unique_pool_lock:
PoolAcquire(w) ==
    /\ upool # NoPool
    /\ upool.threads[w].pc = "lock"
    /\ LockFree(upool.global_unique_pool_lock)
    /\ upool' = [upool EXCEPT !.global_unique_pool_lock = w,
                              !.threads[w].pc = "read"]
    /\ UNCHANGED << pipeline_vars, resolver, strings, seq, pkseq, chunking >>

\* cursor = pool_data['cursor']
PoolRead(w) ==
    /\ upool # NoPool
    /\ upool.threads[w].pc = "read"
    /\ upool' = [upool EXCEPT !.threads[w].cursor = upool.pool_data.cursor,
                              !.threads[w].pc = "take"]
    /\ UNCHANGED << pipeline_vars, resolver, strings, seq, pkseq, chunking >>

\* if cursor < pool_data['size']: row[cname] = pool_data['pool'][cursor];
\* pool_data['cursor'] += 1   else: row[cname] = None
PoolTake(w) ==
    /\ upool # NoPool
    /\ upool.threads[w].pc = "take"
    /\ LET t == upool.threads[w]
       IN  IF t.cursor < upool.pool_data.size
           THEN upool' = [upool EXCEPT
                            !.threads[w].value = upool.pool_data.pool[t.cursor + 1],
                            !.threads[w].pc = "release",
                            !.pool_data.cursor = CursorAfterTake(upool.pool_data)]
           ELSE upool' = [upool EXCEPT !.threads[w].value = None,
                                       !.threads[w].pc = "release"]
    /\ UNCHANGED << pipeline_vars, resolver, strings, seq, pkseq, chunking >>

\* the with block ends; the row joins the chunk's rows and the loop goes to the
\* next batch_idx, or the chunk is finished
PoolRelease(w) ==
    /\ upool # NoPool
    /\ upool.threads[w].pc = "release"
    /\ LET t == upool.threads[w]
       IN  upool' = [upool EXCEPT
                        !.global_unique_pool_lock = 0,
                        !.threads[w] =
                            [t EXCEPT !.rows = Append(@, [cursor |-> t.cursor,
                                                          value |-> t.value]),
                                      !.cursor = None,
                                      !.value = None,
                                      !.left = @ - 1,
                                      !.pc = IF t.left > 1 THEN "lock" ELSE "idle"]]
    /\ UNCHANGED << pipeline_vars, resolver, strings, seq, pkseq, chunking >>

NextPool ==
    \E w \in Workers :
        \/ PoolStartChunk(w)
        \/ PoolAcquire(w)
        \/ PoolRead(w)
        \/ PoolTake(w)
        \/ PoolRelease(w)

SpecUniquePool == InitPool /\ [][NextPool]_vars

\* the requests that have been answered: << worker, position in its rows >>
PoolRequests ==
    {r \in Workers \X (1..(PoolChunks * PoolChunkRows)) :
        r[2] <= Len(upool.threads[r[1]].rows)}

PoolAnswer(r) == upool.threads[r[1]].rows[r[2]]

\* C21: under any interleaving of the worker threads and across the chunks of
\* the table, an entry of the pool goes to at most one row, and a request made
\* when the cursor has reached the pool size is answered with null (and only
\* such a request is)
C21_PoolEntryHandedOutOnce ==
    upool # NoPool =>
        /\ \A r1, r2 \in PoolRequests :
              (r1 # r2 /\ PoolAnswer(r1).value # None /\ PoolAnswer(r2).value # None)
                  => PoolAnswer(r1).cursor # PoolAnswer(r2).cursor
        /\ \A r \in PoolRequests :
              /\ PoolAnswer(r).cursor >= upool.pool_data.size
                    <=> PoolAnswer(r).value = None
              /\ PoolAnswer(r).value # None
                    => PoolAnswer(r).value = upool.pool_data.pool[PoolAnswer(r).cursor + 1]
        /\ upool.pool_data.cursor <= upool.pool_data.size

\* two workers have each been given an entry of the pool, and a later request
\* found the pool exhausted
C21_TwoWorkersDrainThePool ==
    /\ upool # NoPool
    /\ \E w1, w2 \in Workers :
          /\ w1 # w2
          /\ \E i \in DOMAIN upool.threads[w1].rows :
                upool.threads[w1].rows[i].value # None
          /\ \E i \in DOMAIN upool.threads[w2].rows :
                upool.threads[w2].rows[i].value # None
    /\ \E r \in PoolRequests : PoolAnswer(r).value = None

\* ---------------------------------------------------------------------------
\* generate_parallel: how the rows of one table are split, as a function of
\* num_rows and of --threads (an int that main() takes as it is given)
\* ---------------------------------------------------------------------------

\* largest --threads value
MaxThreads == 3

ThreadCounts == (0 - 1)..MaxThreads

RowCountChoices ==
    {0, 1, ParallelMinRows - 1, ParallelMinRows, ParallelMinRows + 1,
     ParallelMinRows + 300, ParallelMinRows + 600}

\* Python's a // b for a >= 0 and b # 0 (floor division)
FloorDiv(a, b) == IF b > 0 THEN a \div b ELSE 0 - ((a + (0 - b) - 1) \div (0 - b))

\* chunk_size = max(100, num_rows // (max_workers * 4))
ChunkSizeFor(num_rows, threads) ==
    Max(MinChunkRows, FloorDiv(num_rows, threads * ChunksPerWorker))

\* [(i, min(i + chunk_size, num_rows)) for i in range(0, num_rows, chunk_size)]
ChunksFor(num_rows, threads) ==
    LET chunk_size == ChunkSizeFor(num_rows, threads)
        count == (num_rows + chunk_size - 1) \div chunk_size
    IN  [k \in 1..count |->
            [start_idx |-> (k - 1) * chunk_size,
             end_idx |-> Min(k * chunk_size, num_rows)]]

\* the branch of generate_parallel for one table: one batch on the calling
\* thread, the chunks handed to the executor, or the exception that ends the run
\* (num_rows // 0, or ThreadPoolExecutor(max_workers <= 0))
SplitOutcome(num_rows, threads) ==
    IF num_rows < ParallelMinRows \/ threads = 1
    THEN [kind |-> "single", error |-> "",
          batches |-> << [start_idx |-> 0, end_idx |-> num_rows] >>]
    ELSE IF threads = 0
         THEN [kind |-> "raised", error |-> "ZeroDivisionError", batches |-> << >>]
         ELSE IF threads < 0
              THEN [kind |-> "raised", error |-> "ValueError", batches |-> << >>]
              ELSE [kind |-> "chunks", error |-> "",
                    batches |-> ChunksFor(num_rows, threads)]

InitChunking ==
    /\ InitPipeline({ScnAutoParent}, {0})
    /\ resolver = NoResolver
    /\ strings = NoStrings
    /\ seq = NoSeq
    /\ pkseq = NoPkSeq
    /\ upool = NoPool
    /\ chunking = NoChunking

\* generate_parallel reaches a table: the test on num_rows and max_workers, and
\* chunk_size and chunks in the else branch
SplitRows ==
    /\ chunking = NoChunking
    /\ \E num_rows \in RowCountChoices, threads \in ThreadCounts :
          chunking' = [op |-> "split", num_rows |-> num_rows, threads |-> threads,
                       outcome |-> SplitOutcome(num_rows, threads),
                       on_caller |-> << >>, submitted |-> << >>]
    /\ UNCHANGED << pipeline_vars, resolver, strings, seq, pkseq, upool >>

\* rows = self.generate_batch_fast(node, 0, num_rows, ...) on the calling thread
RunSingleBatch ==
    /\ chunking # NoChunking
    /\ chunking.outcome.kind = "single"
    /\ chunking.on_caller = << >>
    /\ chunking' = [chunking EXCEPT !.on_caller = chunking.outcome.batches]
    /\ UNCHANGED << pipeline_vars, resolver, strings, seq, pkseq, upool >>

\* for start_idx, end_idx in chunks: executor.submit(self.generate_batch_fast, ...)
SubmitChunk ==
    /\ chunking # NoChunking
    /\ chunking.outcome.kind = "chunks"
    /\ Len(chunking.submitted) < Len(chunking.outcome.batches)
    /\ chunking' = [chunking EXCEPT
                      !.submitted = Append(@, chunking.outcome.batches[Len(@) + 1])]
    /\ UNCHANGED << pipeline_vars, resolver, strings, seq, pkseq, upool >>

NextChunking == SplitRows \/ RunSingleBatch \/ SubmitChunk

SpecChunking == InitChunking /\ [][NextChunking]_vars

\* the batches tile [0, n): each starts where the one before ended
Tiles(batches, n) ==
    /\ Len(batches) > 0 => batches[1].start_idx = 0 /\ batches[Len(batches)].end_idx = n
    /\ Len(batches) = 0 => n = 0
    /\ \A k \in DOMAIN batches :
          /\ batches[k].start_idx < batches[k].end_idx
          /\ k > 1 => batches[k].start_idx = batches[k - 1].end_idx

\* C22: the rows are split into chunks exactly when N >= 1000 and T >= 2; the
\* chunks have size max(100, N div (4 T)), the last one possibly shorter, and
\* tile [0, N); in every other case one batch [0, N) runs on the calling thread
C22_ChunkedExactlyWhenLargeAndThreaded ==
    chunking # NoChunking =>
        LET n == chunking.num_rows
            t == chunking.threads
            out == chunking.outcome
        IN  IF n >= ParallelMinRows /\ t >= 2
            THEN /\ out.kind = "chunks"
                 /\ Tiles(out.batches, n)
                 /\ \A k \in DOMAIN out.batches :
                       LET size == out.batches[k].end_idx - out.batches[k].start_idx
                           chunk_size == Max(MinChunkRows, n \div (ChunksPerWorker * t))
                       IN  IF k < Len(out.batches) THEN size = chunk_size
                           ELSE size <= chunk_size
                 /\ chunking.on_caller = << >>
            ELSE /\ out.kind = "single"
                 /\ out.batches = << [start_idx |-> 0, end_idx |-> n] >>
                 /\ chunking.submitted = << >>

\* ---------------------------------------------------------------------------
\* A single-column primary key that is a FK column
\* ---------------------------------------------------------------------------

\* X(kind, ref_id): the primary key ref_id follows a conditional FK to W.id
ScnConditionalSinglePk ==
    [name |-> "conditional_single_pk", tables |-> << "W", "X" >>,
     meta |-> [t \in {"W", "X"} |->
        IF t = "W" THEN Table(<< IntCol("id", "NO") >>, << "id" >>, 1, 0)
        ELSE Table(<< EnumCol("kind", "NO", {KindW, KindH}), IntCol("ref_id", "NO") >>,
                   << "ref_id" >>, None, 0)],
     unique_constraints |-> [t \in {"W", "X"} |-> << >>],
     declared_fks |-> << >>,
     logical_fks |-> << FK("LOGICAL_X_W", "X", "ref_id", "W", "id", Cond("kind", KindW)) >>,
     composite_fks |-> << >>,
     explicit_pk |-> {"W"}, ignore_self_referential_fks |-> {}]

PkFkScenarios == {ScnPkIsFk, ScnConditionalSinglePk}

SpecPkFk == InitWith(PkFkScenarios, 0..MaxRows) /\ [][Next]_vars

\* the tables whose single-column primary key is a FK column
SinglePkFkTables ==
    {t \in ConfigTables(scn) :
        /\ Len(scn.meta[t].pk_columns) = 1
        /\ FksOn(t, scn.meta[t].pk_columns[1]) # {}}

\* the distinct non-null values of the columns the primary key refers to
PkParentValues(t) ==
    UNION {ReferencedValues(fks[k]) : k \in FksOn(t, scn.meta[t].pk_columns[1])} \ {None}

\* C23: a table whose single-column primary key is a FK column ends FK
\* resolution with min(N, D) rows, D the number of distinct non-null parent
\* values, and the rows' primary keys are pairwise different parent values
C23_PkFkRowsTakeDistinctParentValues ==
    pc = "done" =>
        \A t \in SinglePkFkTables :
            LET pk == scn.meta[t].pk_columns[1]
                rows == generated_rows[t]
            IN  /\ Len(rows) = Min(NumRows(cfg_rows[t]), Cardinality(PkParentValues(t)))
                /\ \A i \in DOMAIN rows : Get(rows[i], pk) \in PkParentValues(t)
                /\ \A i, j \in DOMAIN rows : i # j => Get(rows[i], pk) # Get(rows[j], pk)

\* ---------------------------------------------------------------------------
\* A multi-column primary key that overlaps a composite FK which the
\* pre-allocation of primary keys does not cover
\* ---------------------------------------------------------------------------

\* T's primary key (a, c) overlaps two composite FKs: (a, b) -> P(x, y), whose
\* values of a are pre-allocated, and (c, d) -> Q(x, y), which is left to the
\* row loop
ScnTwoCompositePk ==
    [name |-> "two_composite_pk", tables |-> << "P", "Q", "T" >>,
     meta |-> [t \in {"P", "Q", "T"} |->
        IF t \in {"P", "Q"} THEN PTable("NO")
        ELSE Table(<< IntCol("a", "NO"), IntCol("b", "NO"), IntCol("c", "NO"),
                      IntCol("d", "NO") >>, << "a", "c" >>, None, 0)],
     unique_constraints |-> [t \in {"P", "Q", "T"} |-> << >>],
     declared_fks |-> << >>, logical_fks |-> << >>,
     composite_fks |-> << Comp("LOGICAL_T_a_b", "T", << "a", "b" >>, "P", << "x", "y" >>),
                          Comp("LOGICAL_T_c_d", "T", << "c", "d" >>, "Q", << "x", "y" >>) >>,
     explicit_pk |-> {}, ignore_self_referential_fks |-> {}]

\* P with two rows, Q with one row, T asked for two rows
InitTwoCompositePk ==
    /\ InitWith({ScnTwoCompositePk}, {1, 2})
    /\ cfg_rows["P"] = 2
    /\ cfg_rows["Q"] = 1
    /\ cfg_rows["T"] = 2

SpecOverlap ==
    (InitWith({ScnCompositeNullParent}, 0..MaxRows) \/ InitTwoCompositePk) /\ [][Next]_vars

\* the composite FKs of the table being resolved that overlap its multi-column
\* primary key and are not covered by pre-allocation
TrackedComps ==
    {comp \in Range(CompositeCfgs(logical_composite_fks, res.node)) :
        comp.constraint_name \in
            CompositePkFkOverlap(scn.meta[res.node], logical_composite_fks, res.node, res)}

\* the eligible parent rows that give the row a primary-key tuple not used yet
UnusedParents(comp, row) ==
    {pr \in Range(ValidParentRows(generated_rows, scn.meta[res.node], comp)) :
        /\ IsTruthyRow(pr)
        /\ TupleOf(CopyCols(WithPreAllocatedTuple(res, row), comp.child_columns,
                            comp.referenced_columns, pr),
                   scn.meta[res.node].pk_columns) \notin res.used_composite_pk_combos}

SamplingConstraints == << UC("UQ_SNK", << "s", "n", "k" >>), UC("UQ_SM", << "s", "m" >>) >>

\* most combinations of one value of the shared column
MaxBucketSize == 4

\* the value lists of a column
SamplingValueLists == {<< 0 >>, << 0, 1 >>}

\* build_cartesian_product: list(itertools.product(s, n, k, m)), the last list
\* varying fastest, each tuple as the dict of its columns
ProductCombinations(s, n, k, m) ==
    [i \in 1..(Len(s) * Len(n) * Len(k) * Len(m)) |->
        [s |-> s[((i - 1) \div (Len(n) * Len(k) * Len(m))) + 1],
         n |-> n[(((i - 1) \div (Len(k) * Len(m))) % Len(n)) + 1],
         k |-> k[(((i - 1) \div Len(m)) % Len(k)) + 1],
         m |-> m[((i - 1) % Len(m)) + 1]]]

\* stratified_sample is called with the whole Cartesian product, the values of
\* the shared column and the non-shared columns in constraint order
CallStratifiedSampleOnProduct ==
    /\ resolver = NoResolver
    /\ \E s \in SamplingValueLists, n \in SamplingValueLists,
          k \in SamplingValueLists, m \in SamplingValueLists,
          target_size \in 0..MaxTargetSize :
        /\ Len(n) * Len(k) * Len(m) <= MaxBucketSize
        /\ \E result \in stratified_sample(ProductCombinations(s, n, k, m), "s", s,
                                            << "n", "k", "m" >>, target_size) :
               resolver' = [op |-> "stratified_sample_on_product",
                            combinations |-> ProductCombinations(s, n, k, m),
                            shared_values |-> s,
                            constraint_non_shared_cols |-> << "n", "k", "m" >>,
                            target_size |-> target_size,
                            result |-> result]
    /\ UNCHANGED << pipeline_vars, strings, seq, pkseq, upool, chunking >>

NextSampling == CallStratifiedSampleOnProduct \/ ResolverResultUsed

SpecSampling == InitResolver /\ [][NextSampling]_vars

\* the two combinations agree on every column of the constraint
AgreeOn(uc, c1, c2) == \A i \in DOMAIN uc.columns : c1[uc.columns[i]] = c2[uc.columns[i]]

\* the values of the column in the combinations of the call
SampledValues(col) == {resolver.combinations[i][col] : i \in DOMAIN resolver.combinations}

\* the largest number of rows asked of one shared value
LargestQuota ==
    (resolver.target_size + Len(resolver.shared_values) - 1) \div Len(resolver.shared_values)

\* the product has the requested number of combinations, and for each shared
\* value each constraint has as many different tuples as rows are asked of it
SufficientCombinations ==
    /\ resolver.target_size <= Len(resolver.combinations)
    /\ Cardinality(SampledValues("n")) * Cardinality(SampledValues("k")) >= LargestQuota
    /\ Cardinality(SampledValues("m")) >= LargestQuota

\* C25: when the Cartesian product has sufficient combinations for the
\* requested count, no two combinations of the selection agree on all columns
\* of one of the overlapping constraints
C25_SampleSatisfiesOverlappingConstraints ==
    (resolver.op = "stratified_sample_on_product" /\ SufficientCombinations) =>
        /\ resolver.result.ok
        /\ \A i, j \in DOMAIN resolver.result.value :
              i # j => \A u \in DOMAIN SamplingConstraints :
                          ~AgreeOn(SamplingConstraints[u], resolver.result.value[i],
                                   resolver.result.value[j])

\* ---------------------------------------------------------------------------
\* select_tightest_constraint on the composite unique constraints of a table
\* as load_unique_constraints delivers them (ORDER BY INDEX_NAME)
\* ---------------------------------------------------------------------------

\* the place of an index name in the order of the names
NameRank(name) == IF name = "UQ_AB" THEN 1 ELSE IF name = "UQ_AC" THEN 2 ELSE 3

\* two or more of the constraints, in index-name order
LoadedConstraintLists ==
    {l \in ListsUpTo(ResolverConstraints, MaxConstraints + 1) :
        /\ Len(l) >= 2
        /\ \A i \in 1..(Len(l) - 1) :
              NameRank(l[i].constraint_name) < NameRank(l[i + 1].constraint_name)}

CallSelectTightestOfLoaded ==
    /\ resolver = NoResolver
    /\ \E composite_constraints \in LoadedConstraintLists,
          fk_map \in ResolverFkMaps,
          populate_config \in ResolverPopulateConfigs,
          rows_of \in ResolverParentRows :
            resolver' = [op |-> "select_tightest_of_loaded",
                         composite_constraints |-> composite_constraints,
                         fk_map |-> fk_map,
                         populate_config |-> populate_config,
                         generated_rows |-> rows_of,
                         result |-> select_tightest_constraint(
                                        composite_constraints, fk_map,
                                        populate_config, rows_of)]
    /\ UNCHANGED << pipeline_vars, strings, seq, pkseq, upool, chunking >>

NextTightest == CallSelectTightestOfLoaded \/ ResolverResultUsed

SpecTightest == InitResolver /\ [][NextTightest]_vars

\* the estimate of the i-th constraint of the call
EstimateOf(i) ==
    combo_count(resolver.composite_constraints[i].columns, 1, 1, resolver.fk_map,
                resolver.populate_config, resolver.generated_rows)

\* the constraints of the call whose estimate no other estimate is below
MinimalCandidates ==
    {i \in DOMAIN resolver.composite_constraints :
        \A j \in DOMAIN resolver.composite_constraints : ~ComboLess(EstimateOf(j), EstimateOf(i))}

MaxOverlapConstraints == 4

\* a chain UQ_AB - UQ_BC - UQ_CD, UQ_AC across it, and UQ_EF apart from all
OverlapConstraints ==
    {UC("UQ_AB", << "a", "b" >>), UC("UQ_BC", << "b", "c" >>), UC("UQ_CD", << "c", "d" >>),
     UC("UQ_AC", << "a", "c" >>), UC("UQ_EF", << "e", "f" >>)}

\* set(uc1.columns) & set(uc2.columns)
SharesColumn(uc1, uc2) == Range(uc1.columns) \cap Range(uc2.columns) # {}

\* the group built for the i-th constraint: itself and every constraint that
\* shares a column with it
NeighbourGroup(composite_constraints, i) ==
    {composite_constraints[i]} \cup
    {composite_constraints[j] : j \in {k \in DOMAIN composite_constraints :
        k # i /\ SharesColumn(composite_constraints[i], composite_constraints[k])}}

\* find_overlapping_constraints: the groups of more than one constraint, each
\* set of names once, in the order of their first appearance
find_overlapping_constraints(composite_constraints) ==
    IF Len(composite_constraints) < 2 THEN << >>
    ELSE LET groups == [i \in DOMAIN composite_constraints |->
                           NeighbourGroup(composite_constraints, i)]
             IsGroup(g) == Cardinality(g) > 1
         IN  DistinctInOrder(SelectSeq(groups, IsGroup))

CallFindOverlappingConstraints ==
    /\ resolver = NoResolver
    /\ \E composite_constraints \in ListsUpTo(OverlapConstraints, MaxOverlapConstraints) :
          resolver' = [op |-> "find_overlapping_constraints",
                       composite_constraints |-> composite_constraints,
                       result |-> Returned(find_overlapping_constraints(
                                               composite_constraints))]
    /\ UNCHANGED << pipeline_vars, strings, seq, pkseq, upool, chunking >>

NextOverlapDetection == CallFindOverlappingConstraints \/ ResolverResultUsed

SpecOverlapDetection == InitResolver /\ [][NextOverlapDetection]_vars

\* a chain of constraints of the call from uc1 to uc2 in which consecutive
\* constraints share a column
ConnectedByChain(uc1, uc2) ==
    \E path \in ListsUpTo(Range(resolver.composite_constraints),
                          Len(resolver.composite_constraints)) :
        /\ Len(path) >= 2
        /\ path[1] = uc1
        /\ path[Len(path)] = uc2
        /\ \A i \in 1..(Len(path) - 1) : SharesColumn(path[i], path[i + 1])

\* the groups of the result that hold the constraint
GroupsHolding(uc) ==
    {g \in DOMAIN resolver.result.value : uc \in resolver.result.value[g]}

\* C27: the groups are the classes of transitive overlap: two constraints are
\* in one group exactly when a chain of column-sharing constraints connects
\* them, a constraint is in at most one group, and a constraint that shares no
\* column with another one is in no group
C27_GroupsAreTransitiveOverlapClasses ==
    resolver.op = "find_overlapping_constraints" =>
        LET given == Range(resolver.composite_constraints)
        IN  /\ \A uc1, uc2 \in given :
                  uc1 # uc2 =>
                      ((GroupsHolding(uc1) \cap GroupsHolding(uc2) # {})
                          <=> ConnectedByChain(uc1, uc2))
            /\ \A uc \in given : Cardinality(GroupsHolding(uc)) <= 1
            /\ \A uc \in given :
                  (\A other \in given \ {uc} : ~SharesColumn(uc, other))
                      => GroupsHolding(uc) = {}

\* ---------------------------------------------------------------------------
\* FK resolution of a child and the state of its parent's rows
\* ---------------------------------------------------------------------------

\* S.id is S's primary key and a FK to P.id, S.s_ref is a nullable FK of S to
\* itself that is not ignored, and D.s_v is a FK to S.v
ScnSelfRefParent ==
    [name |-> "self_ref_parent", tables |-> << "P", "S", "D" >>,
     meta |-> [t \in {"P", "S", "D"} |->
        IF t = "P" THEN Table(<< IntCol("id", "NO") >>, << "id" >>, 1, 0)
        ELSE IF t = "S"
        THEN Table(<< IntCol("id", "NO"), IntCol("v", "NO"), IntCol("s_ref", "YES") >>,
                   << "id" >>, None, 0)
        ELSE Table(<< IntCol("id", "NO"), IntCol("s_v", "NO") >>, << "id" >>, 1, 0)],
     unique_constraints |-> [t \in {"P", "S", "D"} |-> << >>],
     declared_fks |-> << FK("FK_S_P", "S", "id", "P", "id", NoCondition),
                         FK("FK_S_S", "S", "s_ref", "S", "id", NoCondition),
                         FK("FK_D_S", "D", "s_v", "S", "v", NoCondition) >>,
     logical_fks |-> << >>, composite_fks |-> << >>,
     explicit_pk |-> {"P"}, ignore_self_referential_fks |-> {}]

ResolutionOrderScenarios == {ScnAutoParent, ScnPkIsFk, ScnSelfRefParent}

SpecResolutionOrder == InitWith(ResolutionOrderScenarios, 0..MaxRows) /\ [][Next]_vars

\* the single-column FKs between two different configured tables
CrossTableFks ==
    {k \in DOMAIN fks : /\ fks[k].table_name # fks[k].referenced_table_name
                        /\ fks[k].table_name \in metadata
                        /\ fks[k].referenced_table_name \in metadata}

\* C28: while a table's FKs are resolved, the FK resolution of every other
\* configured table it references has completed, and after the run every value
\* a child row took over a FK to another table is the referenced column's
\* value in a row of the parent's final rows.
C28_ParentResolvedBeforeChildReads ==
    /\ (pc = "resolve" /\ res # NoRes) =>
          \A e \in ConfiguredFkGraph :
              (e[2] = res.node /\ e[1] # e[2]) => IsResolved(e[1])
    /\ pc = "done" =>
          \A k \in CrossTableFks :
              \A row \in Range(generated_rows[fks[k].table_name]) :
                  FkGoverns(fks[k], row) =>
                      \/ Get(row, fks[k].column_name) = None
                      \/ Get(row, fks[k].column_name) \in ReferencedValues(fks[k])

\* ---------------------------------------------------------------------------
\* The planner's order on FK graphs with a cycle or a self-loop
\* ---------------------------------------------------------------------------

\* the edge lies on a cycle of the graph: its parent is reachable from its child
OnCycle(graph, e) ==
    e[1] = e[2] \/ e[1] \in ReachableWithin(graph, e[2], Cardinality(ConfigTables(scn)))

\* C29: in the order the planner returns, also for a FK graph with a cycle or
\* a self-loop, the parent stands before the child for every edge between two
\* different tables that does not lie on a cycle, the edges into tables
\* reachable from a cycle included.
C29_EdgesOffCyclesParentFirst ==
    pc \notin {"start", "topo"} =>
        \A e \in ConfiguredFkGraph :
            ~OnCycle(ConfiguredFkGraph, e) =>
                PositionIn(order, e[1]) < PositionIn(order, e[2])

\* ---------------------------------------------------------------------------
\* The trackers of the chunk-local duplicate detection
\* ---------------------------------------------------------------------------

\* U(id, a, b, c) with the composite UNIQUE indexes (a, b) and (b, c) over
\* columns that are drawn at random
ScnTwoUnique ==
    [name |-> "two_unique", tables |-> << "U" >>,
     meta |-> [t \in {"U"} |->
        Table(<< IntCol("id", "NO"), IntCol("a", "NO"), IntCol("b", "NO"),
                 IntCol("c", "NO") >>, << "id" >>, 1, 0)],
     unique_constraints |-> [t \in {"U"} |->
        << UC("UQ_AB", << "a", "b" >>), UC("UQ_BC", << "b", "c" >>) >>],
     declared_fks |-> << >>, logical_fks |-> << >>, composite_fks |-> << >>,
     explicit_pk |-> {}, ignore_self_referential_fks |-> {}]

SpecTrackers == InitWith({ScnTwoUnique, ScnUniqueFk}, 0..MaxRows) /\ [][Next]_vars

\* the tuples of the constraint's columns in the rows the chunk has kept
KeptTuples(uc) ==
    {t \in {TupleOf(gen.rows[i], uc.columns) : i \in DOMAIN gen.rows} : ~HasNone(t)}

\* C30: while a chunk is generated, the tracker of every unique constraint
\* holds the tuples of the rows the chunk has kept and nothing else: a row
\* rejected as a duplicate leaves no tuple behind.
C30_TrackersHoldKeptRowsOnly ==
    gen # NoGen =>
        \A uc \in Range(scn.unique_constraints[gen.node]) :
            gen.local_trackers[uc.constraint_name] = KeptTuples(uc)

====
